---- MODULE Spec2Model ----
(***************************************************************************)
(* Workspace lifecycle of the ws multi-repo workspace manager:             *)
(* workspace::create / add_repos / remove / has_pending_changes and the    *)
(* `ws remove` command, over shared bare mirrors and per-workspace         *)
(* worktrees.                                                              *)
(*                                                                         *)
(* Names, branches and refs are sequences of characters, so that           *)
(* validate_name and the "origin/<x>" formatting are computed, not         *)
(* assumed.  An identity is the sequence of the '/'-separated segments of  *)
(* its canonical string.  A BTreeMap is a function whose keys are visited  *)
(* in the order of SortedIds.                                              *)
(*                                                                         *)
(* The git backend (crate::git) and crate::giturl are external to the      *)
(* lifecycle code; each backend call either fails (the operation's fault   *)
(* set names it) or has the effect its interface states.                   *)
(***************************************************************************)
EXTENDS Integers, Sequences, FiniteSets, TLC

\* ---------------------------------------------------------------- bounds
\* the largest number of backend calls that fail within one operation
MaxFaults == 2
\* the largest number of operations in one behaviour
MaxOps == 3

\* ------------------------------------------------------------- universe
IdX == <<"h", "a", "x">>
IdY == <<"h", "a", "y">>
IdBad == <<"bad">>
\* an identity with the short name of IdX under another owner
IdX2 == <<"h", "b", "x">>
IdZ == <<"h", "a", "z">>
\* the identity strings in key order
\* ("bad" < "h/a/x" < "h/a/y" < "h/a/z" < "h/b/x")
SortedIds == <<IdBad, IdX, IdY, IdZ, IdX2>>
\* the identities requested of create / add_repos
Ids == {IdBad, IdX, IdY}
\* the identities of the layout runs: two of them share a short name
LayoutIds == {IdX, IdY, IdX2}
\* the identities of the concurrent runs: three different short names
RaceIds == {IdX, IdY, IdZ}

WsA == <<"a">>
\* names given to create: a valid one and the invalid shapes
Names == {WsA, <<>>, <<".">>, <<".", ".">>, <<"a", "/">>, <<"\\", "a">>}
\* the names of Names that validate_name accepts: the directories that can
\* come to exist under the workspaces root
ValidNames == {WsA}

Main == <<"m">>
Tag == <<"v">>
\* a branch of the upstream that the bare clone holds as a remote-tracking
\* ref only
Dev == <<"d">>
NoRef == <<>>
\* refs given to create / add_repos: "" (Active) or a branch (Context)
Refs == {NoRef, Main}

VARIABLES
    ws,        \* workspaces root: name -> directory state
    mirrors,   \* mirrors root: identity -> bare clone state
    last,      \* the operation that ran last and its result
    ops,       \* the number of operations run so far
    rt,        \* a metadata value on its way through save and load
    fx,        \* a run of the fetch command
    cc,        \* two add_repos calls running at the same time
    dt         \* a run of detect

vars == <<ws, mirrors, last, ops, rt, fx, cc, dt>>

\* --------------------------------------------------------------- helpers

RECURSIVE SubsetsUpTo(_, _)
SubsetsUpTo(S, k) ==
    IF k = 0 THEN {{}}
    ELSE LET P == SubsetsUpTo(S, k - 1)
         IN  P \cup {p \cup {e} : p \in P, e \in S}

\* keys that come in descending order
keys_descending(map) ==
    LET up == SelectSeq(SortedIds, LAMBDA i : i \in DOMAIN map)
    IN  [i \in 1..Len(up) |-> up[Len(up) + 1 - i]]

\* keys of a BTreeMap<String, _> in iteration order
Keys(map) == SelectSeq(SortedIds, LAMBDA i : i \in DOMAIN map)

\* a backend call on an identity fails in this operation
Fails(F, call, id) == <<call, id>> \in F
\* fs::remove_dir_all of the workspace directory fails in this operation
RmDir == <<"remove_dir_all", <<>>>>

Ev(call, id, arg, ok) == [call |-> call, id |-> id, arg |-> arg, ok |-> ok]

\* ------------------------------------------------------------ data model
NoDir == [exists |-> FALSE, meta |-> FALSE, name |-> <<>>, branch |-> <<>>,
          repos |-> <<>>, wts |-> <<>>]

EmptyDir == [NoDir EXCEPT !.exists = TRUE]

\* Option<WorkspaceRepoRef>
RefNone == [some |-> FALSE, ref |-> NoRef]
RefSome(r) == [some |-> TRUE, ref |-> r]

\* a freshly attached worktree of a mirror: co is the local branch it has
\* checked out (<<>> when detached or on a remote-tracking ref); it is
\* clean and has nothing ahead
Worktree(id, co) == [id |-> id, co |-> co, changed |-> FALSE, ahead |-> FALSE]

NoMirror == [exists |-> FALSE, branches |-> {}, remotes |-> {}, unmerged |-> {},
             landed |-> {}, wts |-> {}]

\* a bare clone with the default branch; origin is TRUE when the clone also
\* holds refs/remotes/origin/<default> and refs/remotes/origin/<Dev>
FreshMirror(origin) ==
    [exists |-> TRUE, branches |-> {Main},
     remotes |-> IF origin THEN {Main, Dev} ELSE {},
     unmerged |-> {}, landed |-> {}, wts |-> {}]

\* ------------------------------------------------------------- giturl
parse_ok(identity) == Len(identity) = 3
Short(identity) == identity[Len(identity)]

\* ---------------------------------------------------------- git backend
branch_exists(m, name) == m.exists /\ name \in m.branches
RemoteRef(name) == <<"refs/remotes/origin/">> \o name
OriginRef(name) == <<"origin/">> \o name
\* a remote-tracking ref, named in full or as origin/<x>
ref_exists(m, r) ==
    m.exists /\ \E n \in m.remotes : r = RemoteRef(n) \/ r = OriginRef(n)

\* ------------------------------------------------------- validate_name
\* a validation that lets the dot names through
validate_name_no_dots(name) ==
    IF name = <<>> THEN FALSE
    ELSE IF \E i \in 1..Len(name) : name[i] = "/" \/ name[i] = "\\" THEN FALSE
    ELSE TRUE

validate_name(name) ==
    IF name = <<>> THEN FALSE
    ELSE IF \E i \in 1..Len(name) : name[i] = "/" \/ name[i] = "\\" THEN FALSE
    ELSE IF name = <<".">> \/ name = <<".", ".">> THEN FALSE
    ELSE TRUE


\* -------------------------------------------------------- add_worktree
Put(f, k, v) == [x \in DOMAIN f \cup {k} |-> IF x = k THEN v ELSE f[x]]

\* git worktree add succeeds only against an existing mirror, into an
\* existing workspace directory, at a path that is still free
can_attach(st, n, id, call, F) ==
    /\ st.mirrors[id].exists
    /\ st.ws[n].exists
    /\ Short(id) \notin DOMAIN st.ws[n].wts
    /\ ~Fails(F, "worktree_add", id)

\* the effect of a successful worktree add; newBranch is the set of
\* branches the call creates in the mirror
attached(st, n, id, call, arg, newBranch) ==
    LET co == IF call = "worktree_add" THEN CHOOSE b \in newBranch : TRUE
              ELSE IF arg \in st.mirrors[id].branches THEN arg ELSE <<>>
    IN
    [ws |-> [st.ws EXCEPT ![n].wts = Put(@, Short(id), Worktree(id, co))],
     mirrors |-> [st.mirrors EXCEPT
                    ![id].wts = @ \cup {<<n, Short(id)>>},
                    ![id].branches = @ \cup newBranch]]

worktree_call(st, n, id, call, arg, newBranch, F) ==
    LET ok == can_attach(st, n, id, call, F)
    IN  [st |-> IF ok THEN attached(st, n, id, call, arg, newBranch) ELSE st,
         log |-> <<Ev(call, id, arg, ok)>>,
         ok |-> ok]

\* a Context attach that makes a local branch out of a remote-tracking ref
attach_context_new_branch(st, n, id, git_ref, F) ==
    LET m == st.mirrors[id] IN
    IF branch_exists(m, git_ref)
    THEN worktree_call(st, n, id, "worktree_add_existing", git_ref, {}, F)
    ELSE worktree_call(st, n, id, "worktree_add", OriginRef(git_ref),
                       {git_ref}, F)

\* Context repo: check out at the specified ref
attach_context(st, n, id, git_ref, F) ==
    LET m == st.mirrors[id] IN
    IF branch_exists(m, git_ref)
    THEN worktree_call(st, n, id, "worktree_add_existing", git_ref, {}, F)
    ELSE IF ref_exists(m, RemoteRef(git_ref))
    THEN worktree_call(st, n, id, "worktree_add_existing",
                       OriginRef(git_ref), {}, F)
    ELSE worktree_call(st, n, id, "worktree_add_detached", git_ref, {}, F)

\* a start point that is origin/<default> whether that ref exists or not
start_point_origin(m, default_branch) == OriginRef(default_branch)

\* origin/<default> when that ref exists, else <default> (bare clones)
start_point(m, default_branch) ==
    LET start_point_candidate == OriginRef(default_branch)
    IN  IF ref_exists(m, start_point_candidate)
        THEN start_point_candidate ELSE default_branch

\* Active repo: create/checkout the workspace branch
attach_active(st, n, id, branch, F) ==
    LET m == st.mirrors[id] IN
    IF branch_exists(m, branch)
    THEN worktree_call(st, n, id, "worktree_add_existing", branch, {}, F)
    ELSE IF ~m.exists \/ Fails(F, "default_branch", id)
    THEN [st |-> st, log |-> <<Ev("default_branch", id, <<>>, FALSE)>>,
          ok |-> FALSE]
    ELSE
    LET default_branch == Main
        r == worktree_call(st, n, id, "worktree_add",
                           start_point(m, default_branch), {branch}, F)
    IN  [r EXCEPT !.log = <<Ev("default_branch", id, default_branch, TRUE)>> \o @]

add_worktree(st, n, id, branch, git_ref, F) ==
    IF ~parse_ok(id) THEN [st |-> st, log |-> <<>>, ok |-> FALSE]
    ELSE IF git_ref # NoRef THEN attach_context(st, n, id, git_ref, F)
    ELSE attach_active(st, n, id, branch, F)

\* -------------------------------------------------------------- create
\* a stored ref that is a record whatever the requested ref
stored_record(r) == RefSome(r)

\* Option<WorkspaceRepoRef> stored for a requested ref
StoredRef(r) == IF r = NoRef THEN RefNone ELSE RefSome(r)

\* the attach loop of create_inner / add_repos: identities in key order,
\* stopping at the first failure; skip holds the identities passed over
\* an attach loop that goes on past a failed attach
RECURSIVE attach_loop_lenient(_, _, _, _, _, _, _)
attach_loop_lenient(st, n, branch, repo_refs, keys, skip, F) ==
    IF keys = <<>>
    THEN [st |-> st, log |-> <<>>, ok |-> TRUE, done |-> {}, failed |-> <<>>]
    ELSE IF Head(keys) \in skip
    THEN attach_loop_lenient(st, n, branch, repo_refs, Tail(keys), skip, F)
    ELSE
    LET id == Head(keys)
        a == add_worktree(st, n, id, branch, repo_refs[id], F)
        rest == attach_loop_lenient(a.st, n, branch, repo_refs, Tail(keys),
                                    skip, F)
    IN  [rest EXCEPT !.log = a.log \o @, !.done = @ \cup {id}]

RECURSIVE attach_loop(_, _, _, _, _, _, _)
attach_loop(st, n, branch, repo_refs, keys, skip, F) ==
    IF keys = <<>>
    THEN [st |-> st, log |-> <<>>, ok |-> TRUE, done |-> {}, failed |-> <<>>]
    ELSE IF Head(keys) \in skip
    THEN attach_loop(st, n, branch, repo_refs, Tail(keys), skip, F)
    ELSE
    LET id == Head(keys)
        a == add_worktree(st, n, id, branch, repo_refs[id], F)
    IN  IF ~a.ok THEN [st |-> a.st, log |-> a.log, ok |-> FALSE, done |-> {},
                           failed |-> id]
        ELSE LET rest == attach_loop(a.st, n, branch, repo_refs, Tail(keys),
                                     skip, F)
             IN  [rest EXCEPT !.log = a.log \o @, !.done = @ \cup {id}]

\* a save that reads the file again and adds to the entries it holds
save_metadata_merged(st, n, name, branch, repos) ==
    [st EXCEPT !.ws[n].meta = TRUE, !.ws[n].name = name,
               !.ws[n].branch = branch,
               !.ws[n].repos = [id \in DOMAIN @ \cup DOMAIN repos |->
                                  IF id \in DOMAIN repos THEN repos[id]
                                  ELSE @[id]]]

\* fs::write of the serialized Metadata: the file is replaced
save_metadata(st, n, name, branch, repos) ==
    [st EXCEPT !.ws[n].meta = TRUE, !.ws[n].name = name,
               !.ws[n].branch = branch, !.ws[n].repos = repos]

\* a recorded branch that carries a prefix the attach loop does not use
meta_branch_prefixed(name) == <<"p", "/">> \o name

\* branch: name.to_string()
meta_branch(name) == name

\* a create_inner that writes the metadata before the attach loop
create_inner_save_first(st, name, repo_refs, F) ==
    LET repos == [id \in DOMAIN repo_refs |-> StoredRef(repo_refs[id])]
        saved == save_metadata(st, name, name, name, repos)
        l == attach_loop(saved, name, name, repo_refs, Keys(repo_refs), {}, F)
    IN  [st |-> l.st,
         log |-> <<Ev("save_metadata", <<>>, name, TRUE)>> \o l.log,
         ok |-> l.ok, who |-> l.failed]

\* add_worktree(..).map_err(|e| "adding worktree for {identity}: {e}")?:
\* the loop's error
\* leaves create_inner with the identity it failed on
attach_err(l) == [st |-> l.st, log |-> l.log, ok |-> FALSE, who |-> l.failed]

create_inner(st, name, repo_refs, F) ==
    LET repos == [id \in DOMAIN repo_refs |-> StoredRef(repo_refs[id])]
        l == attach_loop(st, name, name, repo_refs, Keys(repo_refs), {}, F)
    IN  IF ~l.ok
        THEN attach_err(l)
        ELSE [st |-> save_metadata(l.st, name, name, meta_branch(name), repos),
              log |-> l.log \o <<Ev("save_metadata", <<>>, name, TRUE)>>,
              ok |-> TRUE, who |-> <<>>]

\* a removal that reports success and leaves the tree where it is
remove_dir_all_in_name_only(st, n, F) ==
    [st |-> st, log |-> <<Ev("remove_dir_all", <<>>, n, TRUE)>>, ok |-> TRUE]

\* fs::remove_dir_all of a workspace directory: the whole tree goes, the
\* mirrors are not told
remove_dir_all(st, n, F) ==
    LET ok == RmDir \notin F
    IN  [st |-> IF ok THEN [st EXCEPT !.ws[n] = NoDir] ELSE st,
         log |-> <<Ev("remove_dir_all", <<>>, n, ok)>>,
         ok |-> ok]

\* a cleanup that leaves the directory in place
keep_dir(st, name, F) == [st |-> st, log |-> <<>>, ok |-> FALSE]

\* a cleanup that also takes the workspace's branch and worktree
\* registrations out of every mirror
create_cleanup_with_mirrors(st, name, F) ==
    LET r == remove_dir_all(st, name, F)
    IN  [r EXCEPT !.st.mirrors =
            [id \in DOMAIN @ |->
               [@[id] EXCEPT !.branches = @ \ {name},
                             !.wts = {w \in @ : w[1] # name}]]]

\* the Err arm of create: best-effort removal of the workspace directory
create_cleanup(st, name, F) == remove_dir_all(st, name, F)

\* the Err arm of create: the cleanup runs, then the error of create_inner
\* is returned
create_err(mk, inner, name, F) ==
    LET rb == create_cleanup(inner.st, name, F)
    IN  [st |-> rb.st, log |-> mk \o inner.log \o rb.log,
         res |-> "AttachFailed", who |-> inner.who]

\* create without the check for an existing workspace directory
create_over_existing(st, name, repo_refs, F) ==
    IF ~validate_name(name)
    THEN [st |-> st, log |-> <<>>, res |-> "InvalidName", who |-> <<>>]
    ELSE
    LET made == [st EXCEPT !.ws[name] = EmptyDir]
        mk == <<Ev("create_dir_all", <<>>, name, TRUE)>>
        inner == create_inner(made, name, repo_refs, F)
    IN  IF inner.ok
        THEN [st |-> inner.st, log |-> mk \o inner.log, res |-> "ok",
              who |-> <<>>]
        ELSE create_err(mk, inner, name, F)

create(st, name, repo_refs, F) ==
    IF ~validate_name(name)
    THEN [st |-> st, log |-> <<>>, res |-> "InvalidName", who |-> <<>>]
    ELSE IF st.ws[name].exists
    THEN [st |-> st, log |-> <<>>, res |-> "AlreadyExists", who |-> <<>>]
    ELSE
    LET made == [st EXCEPT !.ws[name] = EmptyDir]
        mk == <<Ev("create_dir_all", <<>>, name, TRUE)>>
        inner == create_inner(made, name, repo_refs, F)
    IN  IF inner.ok
        THEN [st |-> inner.st, log |-> mk \o inner.log, res |-> "ok",
              who |-> <<>>]
        ELSE create_err(mk, inner, name, F)

\* -------------------------------------------------------------- remove
load_ok(st, name) ==
    name \in DOMAIN st.ws /\ st.ws[name].exists /\ st.ws[name].meta

\* git fetch into a mirror: what landed upstream becomes merged locally
fetched(st, id) ==
    [st EXCEPT !.mirrors[id].unmerged = @ \ st.mirrors[id].landed,
               !.mirrors[id].landed = {}]

\* a classification that takes every entry for Active
all_active(entry) == TRUE

is_active(entry) == IF ~entry.some THEN TRUE ELSE entry.ref = NoRef

\* first loop of remove: partition into active_repos / context_repos and
\* fetch every Active mirror; active is a sequence of [id, fetch_failed]
RECURSIVE partition(_, _, _, _)
partition(st, repos, keys, F) ==
    IF keys = <<>>
    THEN [st |-> st, log |-> <<>>, active |-> <<>>, context |-> <<>>]
    ELSE
    LET id == Head(keys) IN
    IF ~parse_ok(id) THEN partition(st, repos, Tail(keys), F)
    ELSE IF is_active(repos[id]) THEN
        LET fetch_failed == ~st.mirrors[id].exists \/ Fails(F, "fetch", id)
            st1 == IF fetch_failed THEN st ELSE fetched(st, id)
            rest == partition(st1, repos, Tail(keys), F)
        IN  [rest EXCEPT
               !.log = <<Ev("fetch", id, <<>>, ~fetch_failed)>> \o @,
               !.active = <<[id |-> id, fetch_failed |-> fetch_failed]>> \o @]
    ELSE
        LET rest == partition(st, repos, Tail(keys), F)
        IN  [rest EXCEPT !.context = <<id>> \o @]

\* a verdict that distrusts the data of a mirror whose fetch failed
merged_if_fetched(m, branch, ar, F) ==
    IF Fails(F, "branch_is_merged", ar.id) \/ ar.fetch_failed THEN FALSE
    ELSE branch \notin m.unmerged

\* a verdict that takes a merge check that errors for merged
merged_or_true(m, branch, ar, F) ==
    IF Fails(F, "branch_is_merged", ar.id) THEN TRUE
    ELSE branch \notin m.unmerged

\* git::branch_is_merged(..).unwrap_or(false)
merged_or_false(m, branch, ar, F) ==
    IF Fails(F, "branch_is_merged", ar.id) THEN FALSE
    ELSE branch \notin m.unmerged

\* pre-flight loop: the (identity, fetch_failed) pairs pushed to unmerged
RECURSIVE merge_gate(_, _, _, _)
merge_gate(st, branch, active, F) ==
    IF active = <<>> THEN [log |-> <<>>, unmerged |-> <<>>]
    ELSE
    LET ar == Head(active)
        m == st.mirrors[ar.id]
        rest == merge_gate(st, branch, Tail(active), F)
        be == Ev("branch_exists", ar.id, branch, branch_exists(m, branch))
    IN
    IF ~branch_exists(m, branch)
    THEN [rest EXCEPT !.log = <<be>> \o @]
    ELSE IF Fails(F, "default_branch", ar.id)
    THEN [rest EXCEPT
            !.log = <<be, Ev("default_branch", ar.id, <<>>, FALSE)>> \o @]
    ELSE
    LET merged == merged_or_false(m, branch, ar, F)
        evs == <<be, Ev("default_branch", ar.id, Main, TRUE),
                 Ev("branch_is_merged", ar.id, branch, merged)>>
    IN  [log |-> evs \o rest.log,
         unmerged |-> IF merged THEN rest.unmerged ELSE <<ar>> \o rest.unmerged]

\* git worktree remove: detaches a registered worktree and deletes its
\* directory
worktree_remove(st, n, id, F) ==
    LET path == <<n, Short(id)>>
        ok == /\ st.mirrors[id].exists
              /\ path \in st.mirrors[id].wts
              /\ ~Fails(F, "worktree_remove", id)
        gone == [k \in DOMAIN st.ws[n].wts \ {Short(id)} |-> st.ws[n].wts[k]]
    IN  [st |-> IF ok
                THEN [st EXCEPT !.mirrors[id].wts = @ \ {path},
                                !.ws[n].wts = gone]
                ELSE st,
         log |-> <<Ev("worktree_remove", id, n, ok)>>]

\* mirror::remove: the bare clone is deleted
mirror_remove(st, id) == [st EXCEPT !.mirrors[id] = NoMirror]

\* a worktree loop that also drops the mirror of each repo
RECURSIVE remove_worktrees_and_mirrors(_, _, _, _)
remove_worktrees_and_mirrors(st, n, ids, F) ==
    IF ids = <<>> THEN [st |-> st, log |-> <<>>]
    ELSE LET r == worktree_remove(st, n, Head(ids), F)
             rest == remove_worktrees_and_mirrors(mirror_remove(r.st, Head(ids)),
                                                  n, Tail(ids), F)
         IN  [rest EXCEPT !.log = r.log \o @]

\* a worktree loop that gives up at the first removal that fails
RECURSIVE remove_worktrees_until_failure(_, _, _, _)
remove_worktrees_until_failure(st, n, ids, F) ==
    IF ids = <<>> THEN [st |-> st, log |-> <<>>]
    ELSE LET r == worktree_remove(st, n, Head(ids), F)
         IN  IF ~r.log[1].ok THEN r
             ELSE LET rest == remove_worktrees_until_failure(r.st, n,
                                                             Tail(ids), F)
                  IN  [rest EXCEPT !.log = r.log \o @]

RECURSIVE remove_worktrees(_, _, _, _)
remove_worktrees(st, n, ids, F) ==
    IF ids = <<>> THEN [st |-> st, log |-> <<>>]
    ELSE LET r == worktree_remove(st, n, Head(ids), F)
             rest == remove_worktrees(r.st, n, Tail(ids), F)
         IN  [rest EXCEPT !.log = r.log \o @]

branch_delete(st, id, branch, F) ==
    LET ok == ~Fails(F, "branch_delete", id)
    IN  [st |-> IF ok
                THEN [st EXCEPT !.mirrors[id].branches = @ \ {branch},
                                !.mirrors[id].unmerged = @ \ {branch},
                                !.mirrors[id].landed = @ \ {branch}]
                ELSE st,
         log |-> <<Ev("branch_delete", id, branch, ok)>>]

\* a removal that keeps the branches
keep_branches(st, branch, active, F) == [st |-> st, log |-> <<>>]

\* a loop that deletes the branch without asking whether it exists
RECURSIVE delete_branch_loop_unasked(_, _, _, _)
delete_branch_loop_unasked(st, branch, active, F) ==
    IF active = <<>> THEN [st |-> st, log |-> <<>>]
    ELSE
    LET id == Head(active).id
        d == branch_delete(st, id, branch, F)
        rest == delete_branch_loop_unasked(d.st, branch, Tail(active), F)
    IN  [rest EXCEPT !.log = d.log \o @]

RECURSIVE delete_branch_loop(_, _, _, _)
delete_branch_loop(st, branch, active, F) ==
    IF active = <<>> THEN [st |-> st, log |-> <<>>]
    ELSE
    LET id == Head(active).id
        exists == branch_exists(st.mirrors[id], branch)
        be == Ev("branch_exists", id, branch, exists)
        d == IF exists THEN branch_delete(st, id, branch, F)
             ELSE [st |-> st, log |-> <<>>]
        rest == delete_branch_loop(d.st, branch, Tail(active), F)
    IN  [rest EXCEPT !.log = <<be>> \o d.log \o @]

ActiveIds(active) == [i \in 1..Len(active) |-> active[i].id]

\* a removal that takes the Context repos first
removal_order_context_first(active, context) == context \o ActiveIds(active)

\* pass 2: the worktrees of active_repos, then those of context_repos
removal_order(active, context) == ActiveIds(active) \o context

\* a pre-flight that runs the merge gate whatever force is
preflight_always(st, branch, active, force, F) ==
    merge_gate(st, branch, active, F)

\* the pre-flight of remove: the merge gate, unless force
preflight(st, branch, active, force, F) ==
    IF force THEN [log |-> <<>>, unmerged |-> <<>>]
    ELSE merge_gate(st, branch, active, F)

\* the entries of the error list that carry "(fetch failed, local data may
\* be stale)"
fetch_failed_mark(entry) == entry.fetch_failed

remove(st, name, force, F) ==
    IF ~load_ok(st, name)
    THEN [st |-> st, log |-> <<>>, res |-> "MetadataError", who |-> <<>>,
          marked |-> <<>>, note |-> FALSE]
    ELSE
    LET meta == st.ws[name]
        p == partition(st, meta.repos, Keys(meta.repos), F)
        g == preflight(p.st, meta.branch, p.active, force, F)
    IN
    IF g.unmerged # <<>>
    THEN [st |-> p.st, log |-> p.log \o g.log, res |-> "UnmergedBranch",
          who |-> ActiveIds(g.unmerged),
          marked |-> ActiveIds(SelectSeq(g.unmerged, fetch_failed_mark)),
          note |-> \E i \in 1..Len(g.unmerged) : g.unmerged[i].fetch_failed]
    ELSE
    LET w == remove_worktrees(p.st, name, removal_order(p.active, p.context), F)
        b == delete_branch_loop(w.st, meta.branch, p.active, F)
        d == remove_dir_all(b.st, name, F)
    IN  [st |-> d.st, log |-> p.log \o g.log \o w.log \o b.log \o d.log,
         res |-> IF d.ok THEN "ok" ELSE "IoError", who |-> <<>>,
         marked |-> <<>>, note |-> FALSE]

\* ----------------------------------------------------------- add_repos
\* an add_repos that passes over no identity
skip_nothing(meta) == {}

\* meta.repos.contains_key(identity): the identities passed over
already_present(meta) == DOMAIN meta.repos

\* an add_repos that writes the metadata of the identities it attached
\* when a later attach fails
add_repos_saving_partial(st, n, repo_refs, F) ==
    IF ~load_ok(st, n)
    THEN [st |-> st, log |-> <<>>, res |-> "MetadataError", done |-> {}]
    ELSE
    LET meta == st.ws[n]
        l == attach_loop(st, n, meta.branch, repo_refs, Keys(repo_refs),
                         already_present(meta), F)
        repos == [id \in DOMAIN meta.repos \cup l.done |->
                    IF id \in l.done THEN StoredRef(repo_refs[id])
                    ELSE meta.repos[id]]
    IN  [st |-> save_metadata(l.st, n, meta.name, meta.branch, repos),
         log |-> l.log \o <<Ev("save_metadata", <<>>, n, TRUE)>>,
         res |-> IF l.ok THEN "ok" ELSE "AttachFailed", done |-> l.done]

add_repos(st, n, repo_refs, F) ==
    IF ~load_ok(st, n)
    THEN [st |-> st, log |-> <<>>, res |-> "MetadataError", done |-> {}]
    ELSE
    LET meta == st.ws[n]
        l == attach_loop(st, n, meta.branch, repo_refs, Keys(repo_refs),
                         already_present(meta), F)
        repos == [id \in DOMAIN meta.repos \cup l.done |->
                    IF id \in l.done THEN StoredRef(repo_refs[id])
                    ELSE meta.repos[id]]
    IN  IF ~l.ok
        THEN [st |-> l.st, log |-> l.log, res |-> "AttachFailed",
              done |-> l.done]
        ELSE [st |-> save_metadata(l.st, n, meta.name, meta.branch, repos),
              log |-> l.log \o <<Ev("save_metadata", <<>>, n, TRUE)>>,
              res |-> "ok", done |-> l.done]

\* ------------------------------------------------- has_pending_changes
\* a check that looks at the uncommitted files only
is_dirty_uncommitted(st, n, short) ==
    /\ short \in DOMAIN st.ws[n].wts
    /\ st.ws[n].wts[short].changed

\* changed_file_count(..).unwrap_or(0) > 0 || ahead_count(..).unwrap_or(0) > 0
\* for the directory <ws_dir>/<repo>
is_dirty(st, n, short) ==
    /\ short \in DOMAIN st.ws[n].wts
    /\ (st.ws[n].wts[short].changed \/ st.ws[n].wts[short].ahead)

RECURSIVE dirty_loop(_, _, _)
dirty_loop(st, n, keys) ==
    IF keys = <<>> THEN <<>>
    ELSE LET id == Head(keys)
             rest == dirty_loop(st, n, Tail(keys))
         IN  IF ~parse_ok(id) THEN rest
             ELSE IF is_dirty(st, n, Short(id)) THEN <<Short(id)>> \o rest
             ELSE rest

has_pending_changes(st, n) ==
    IF ~load_ok(st, n) THEN [ok |-> FALSE, dirty |-> <<>>]
    ELSE [ok |-> TRUE, dirty |-> dirty_loop(st, n, Keys(st.ws[n].repos))]

\* ------------------------------------------------------------ list_all
\* the characters of workspace names, in the order of their code points
Alphabet == <<"a", "b">>
CharRank(c) == CHOOSE i \in DOMAIN Alphabet : Alphabet[i] = c

\* Ord of str: byte-wise lexicographic order
RECURSIVE str_le(_, _)
str_le(a, b) ==
    IF a = <<>> THEN TRUE
    ELSE IF b = <<>> THEN FALSE
    ELSE IF Head(a) # Head(b) THEN CharRank(Head(a)) < CharRank(Head(b))
    ELSE str_le(Tail(a), Tail(b))

RECURSIVE insert_sorted(_, _)
insert_sorted(x, sorted) ==
    IF sorted = <<>> THEN <<x>>
    ELSE IF str_le(x, Head(sorted)) THEN <<x>> \o sorted
    ELSE <<Head(sorted)>> \o insert_sorted(x, Tail(sorted))

\* names.sort()
RECURSIVE sort_names(_)
sort_names(names) ==
    IF names = <<>> THEN <<>>
    ELSE insert_sorted(Head(names), sort_names(Tail(names)))

\* the orders in which fs::read_dir can yield the directories of the
\* workspaces root
ReadDirs(st) ==
    LET dirs == {n \in DOMAIN st.ws : st.ws[n].exists}
    IN  {e \in [1..Cardinality(dirs) -> dirs] :
            \A i, j \in DOMAIN e : i # j => e[i] # e[j]}

\* a listing that takes every directory of the root for a workspace
listed_any_dir(d) == TRUE

\* meta_path.exists()
listed(d) == d.meta

\* ws_root_exists: whether the workspaces root is there; entries: the
\* directories of the root in the order read_dir yields them
list_all(st, ws_root_exists, entries) ==
    IF ~ws_root_exists THEN <<>>
    ELSE sort_names(SelectSeq(entries, LAMBDA n : listed(st.ws[n])))

\* ---------------------------------------------------- `ws new` command
\* Option<&str> of cfg.branch_prefix
NoPrefix == [some |-> FALSE, s |-> <<>>]
SomePrefix(p) == [some |-> TRUE, s |-> p]

\* the branch `ws new` announces: "<prefix>/<name>" for a non-empty
\* prefix, else the name
new_branch(branch_prefix, ws_name) ==
    IF branch_prefix.some /\ branch_prefix.s # <<>>
    THEN branch_prefix.s \o <<"/">> \o ws_name
    ELSE ws_name

\* ------------------------------------------------- `ws remove` command
\* short names in sorted order
SortedShorts == <<"x", "y">>

\* Vec::sort of a list of short names
sort(list) ==
    LET count(s) == Cardinality({i \in 1..Len(list) : list[i] = s})
        rep(s) == [i \in 1..count(s) |-> s]
    IN  rep(SortedShorts[1]) \o rep(SortedShorts[2])

\* a command that goes to workspace::remove without the pending-changes gate
cli_remove_run_ungated(st, name, force, delete_branches, F) ==
    remove(st, name, delete_branches, F)

cli_remove_run(st, name, force, delete_branches, F) ==
    LET pending == IF force THEN [ok |-> TRUE, dirty |-> <<>>]
                   ELSE has_pending_changes(st, name)
    IN
    IF ~pending.ok
    THEN [st |-> st, log |-> <<>>, res |-> "MetadataError", who |-> <<>>,
          marked |-> <<>>, note |-> FALSE]
    ELSE IF pending.dirty # <<>>
    THEN [st |-> st, log |-> <<>>, res |-> "PendingChanges",
          who |-> sort(pending.dirty), marked |-> <<>>, note |-> FALSE]
    ELSE remove(st, name, delete_branches, F)

\* ------------------------------------------------- metadata file (YAML)
\* the YAML values a metadata file is made of
YNull == [y |-> "null"]
YStr(s) == [y |-> "str", s |-> s]
YMap(f) == [y |-> "map", f |-> f]

\* Serialize of WorkspaceRepoRef: the ref field is left out when empty
ser_ref(re) == YMap(IF re.ref = NoRef THEN <<>> ELSE [k \in {"ref"} |-> YStr(re.ref)])

\* Deserialize of WorkspaceRepoRef: a missing ref field is the empty string
de_ref(y) == RefSome(IF "ref" \in DOMAIN y.f THEN y.f["ref"].s ELSE NoRef)

\* an entry serialized as a record whatever its state: the Active state
\* becomes a record with an empty ref
ser_entry_record(e) == ser_ref(e)

\* Serialize of Option<WorkspaceRepoRef>: None is null
ser_entry(e) == IF ~e.some THEN YNull ELSE ser_ref(e)

\* Deserialize of Option<WorkspaceRepoRef>: null is None
de_entry(y) == IF y = YNull THEN RefNone ELSE de_ref(y)

\* serde_yml::to_string(m)
to_yaml(m) ==
    YMap([k \in {"name", "branch", "repos"} |->
            IF k = "name" THEN YStr(m.name)
            ELSE IF k = "branch" THEN YStr(m.branch)
            ELSE YMap([id \in DOMAIN m.repos |-> ser_entry(m.repos[id])])])

\* serde_yml::from_str(&data)
from_yaml(y) ==
    IF y.y # "map" \/ {"name", "branch", "repos"} \ DOMAIN y.f # {}
    THEN [ok |-> FALSE]
    ELSE [ok |-> TRUE,
          name |-> y.f["name"].s,
          branch |-> y.f["branch"].s,
          repos |-> [id \in DOMAIN y.f["repos"].f |->
                       de_entry(y.f["repos"].f[id])]]

\* ---------------------------------------------------------------- state
State == [ws |-> ws, mirrors |-> mirrors]

MirrorIds == {id \in Ids : parse_ok(id)}

\* BTreeMap<String, String> arguments of create / add_repos
RepoRefMaps == UNION {[D -> Refs] : D \in SUBSET Ids \ {{}}}
LayoutRefMaps == UNION {[D -> Refs] : D \in SUBSET LayoutIds \ {{}}}

\* the backend calls an attach loop over repo_refs can make
AttachCalls(repo_refs) ==
    {<<"worktree_add", id>> : id \in {i \in DOMAIN repo_refs : parse_ok(i)}}
    \cup {<<"default_branch", id>> :
             id \in {i \in DOMAIN repo_refs :
                       parse_ok(i) /\ repo_refs[i] = NoRef}}

\* the backend calls remove(name, force) can make on the metadata's repos
RemoveCalls(repos, force) ==
    LET parsed == {id \in DOMAIN repos : parse_ok(id)}
        active == {id \in parsed : is_active(repos[id])}
    IN  {<<"worktree_remove", id>> : id \in parsed}
        \cup ({"fetch", "branch_delete"} \X active)
        \cup IF force THEN {}
              ELSE {"default_branch", "branch_is_merged"} \X active

\* the sets of calls that fail within one operation
FaultSets(calls) == SubsetsUpTo(calls \cup {RmDir}, MaxFaults)

Last(op, name, force, del, res) ==
    [op |-> op, name |-> name, force |-> force, del |-> del, res |-> res]

\* no metadata value in hand, no fetch run under way
NoRoundTrip == [pc |-> "none"]
NoFetchRun == [pc |-> "none"]
NoCalls == [pc |-> "none"]
NoDetect == [pc |-> "none"]

Init ==
    /\ ws = [n \in ValidNames |-> NoDir]
    /\ mirrors = [id \in MirrorIds |-> FreshMirror(id = IdX)]
    /\ last = Last("init", <<>>, FALSE, FALSE, "ok")
    /\ ops = 0
    /\ rt = NoRoundTrip
    /\ fx = NoFetchRun
    /\ cc = NoCalls
    /\ dt = NoDetect

Step(st, l) ==
    /\ ops < MaxOps
    /\ ops' = ops + 1
    /\ ws' = st.ws
    /\ mirrors' = st.mirrors
    /\ last' = l
    /\ UNCHANGED <<rt, fx, cc, dt>>

\* the fault sets worth telling apart for a create call: none when the
\* call fails before its first backend call
CreateFaults(name, repo_refs) ==
    IF validate_name(name) /\ ~ws[name].exists
    THEN FaultSets(AttachCalls(repo_refs)) ELSE {{}}

CreateFor(names, maps) ==
    \E name \in names, repo_refs \in maps :
      \E F \in CreateFaults(name, repo_refs) :
        LET r == create(State, name, repo_refs, F)
        IN  Step(r.st, Last("create", name, FALSE, FALSE, r.res))

CreateOf(maps) == CreateFor(Names, maps)

Create == CreateOf(RepoRefMaps)

AddFaults(n, repo_refs) ==
    IF load_ok(State, n)
    THEN SubsetsUpTo(AttachCalls(repo_refs), MaxFaults) ELSE {{}}

RemoveFaults(name, force) ==
    IF load_ok(State, name)
    THEN FaultSets(RemoveCalls(ws[name].repos, force)) ELSE {{}}

AddReposOf(maps) ==
    \E n \in ValidNames, repo_refs \in maps :
      \E F \in AddFaults(n, repo_refs) :
        LET r == add_repos(State, n, repo_refs, F)
        IN  Step(r.st, Last("add_repos", n, FALSE, FALSE, r.res))

AddRepos == AddReposOf(RepoRefMaps)

RemoveIn(names) ==
    \E name \in names, force \in BOOLEAN :
      \E F \in RemoveFaults(name, force) :
        LET r == remove(State, name, force, F)
        IN  Step(r.st, Last("remove", name, force, FALSE, r.res))

Remove == RemoveIn(ValidNames)

CliRemove ==
    \E name \in ValidNames, force \in BOOLEAN, delete_branches \in BOOLEAN :
      \E F \in RemoveFaults(name, delete_branches) :
        LET r == cli_remove_run(State, name, force, delete_branches, F)
        IN  Step(r.st, Last("ws remove", name, force, delete_branches, r.res))

\* the user edits a file in a worktree
Edit ==
    \E n \in ValidNames : \E s \in DOMAIN ws[n].wts :
        /\ ~ws[n].wts[s].changed
        /\ Step([State EXCEPT !.ws[n].wts[s].changed = TRUE],
                Last("edit", n, FALSE, FALSE, "ok"))

\* the user commits in a worktree: the checked-out branch of the mirror
\* moves ahead of the default branch
CommitIn(names) ==
    \E n \in names : \E s \in DOMAIN ws[n].wts :
        LET w == ws[n].wts[s]
            m == IF w.co \in mirrors[w.id].branches \ {Main}
                 THEN [mirrors EXCEPT ![w.id].unmerged = @ \cup {w.co}]
                 ELSE mirrors
        IN  /\ ~w.ahead
            /\ Step([ws |-> [ws EXCEPT ![n].wts[s].ahead = TRUE],
                     mirrors |-> m],
                    Last("commit", n, FALSE, FALSE, "ok"))

Commit == CommitIn(ValidNames)

\* the branch is merged upstream (a pull request is merged); the mirror
\* learns of it at its next fetch
LandIn(ids) ==
    \E id \in ids : \E b \in mirrors[id].unmerged \ mirrors[id].landed :
        Step([State EXCEPT !.mirrors[id].landed = @ \cup {b}],
             Last("land", b, FALSE, FALSE, "ok"))

Land == LandIn(MirrorIds)

\* mirror::remove: the bare clone is deleted
MirrorRemove ==
    \E id \in MirrorIds :
        /\ mirrors[id].exists
        /\ Step(mirror_remove(State, id),
                Last("mirror::remove", id, FALSE, FALSE, "ok"))

\* mirror::clone: a bare clone is made where none is
MirrorClone ==
    \E id \in MirrorIds :
        /\ ~mirrors[id].exists
        /\ Step([State EXCEPT !.mirrors[id] = FreshMirror(id = IdX)],
                Last("mirror::clone", id, FALSE, FALSE, "ok"))

Next ==
    \/ Create \/ AddRepos \/ Remove \/ CliRemove
    \/ Edit \/ Commit \/ Land \/ MirrorRemove \/ MirrorClone

Spec == Init /\ [][Next]_vars

\* ------------------------------------------------------- layout runs
\* create and add_repos over three mirrors, two of which have the same
\* short name
LayoutInit ==
    /\ ws = [n \in ValidNames |-> NoDir]
    /\ mirrors = [id \in LayoutIds |-> FreshMirror(id = IdX)]
    /\ last = Last("init", <<>>, FALSE, FALSE, "ok")
    /\ ops = 0
    /\ rt = NoRoundTrip
    /\ fx = NoFetchRun
    /\ cc = NoCalls
    /\ dt = NoDetect

LayoutCreate == CreateOf(LayoutRefMaps)

LayoutAddRepos == AddReposOf(LayoutRefMaps)

LayoutNext == LayoutCreate \/ LayoutAddRepos \/ Edit \/ Commit

SpecLayout == LayoutInit /\ [][LayoutNext]_vars

\* ------------------------------------------------------ lifecycle runs
\* create, add_repos and remove over the mirrors of the layout runs
LifeNext == LayoutCreate \/ LayoutAddRepos \/ Remove

SpecLife == LayoutInit /\ [][LifeNext]_vars

\* ----------------------------------------------------- safety-gate runs
\* workspaces of two repos whose short names sort against their key order,
\* with edits, commits and upstream merges, removed through
\* workspace::remove and through the `ws remove` command
GateIds == {IdY, IdX2}
GateRefMaps == UNION {[D -> Refs] : D \in SUBSET GateIds \ {{}}}

GateCreate == CreateFor(ValidNames, GateRefMaps)

GateLand == LandIn(GateIds)

GateNext ==
    \/ GateCreate \/ Edit \/ Commit \/ GateLand \/ Remove \/ CliRemove

SpecGate == LayoutInit /\ [][GateNext]_vars

\* ---------------------------------------------- runs on two workspaces
WsB == <<"b">>
\* the workspace names of these runs, and an invalid one
ListNames == {WsA, WsB}
ListInputs == ListNames \cup {<<>>}
\* the requests of these runs: one repo, Active or Context
ListRefMaps == [{IdX} -> Refs]

ListInit ==
    /\ ws = [n \in ListNames |-> NoDir]
    /\ mirrors = [id \in MirrorIds |-> FreshMirror(id = IdX)]
    /\ last = Last("init", <<>>, FALSE, FALSE, "ok")
    /\ ops = 0
    /\ rt = NoRoundTrip
    /\ fx = NoFetchRun
    /\ cc = NoCalls
    /\ dt = NoDetect

ListCreate == CreateFor(ListInputs, ListRefMaps)

ListRemove == RemoveIn(ListNames)

ListCommit == CommitIn(ListNames)

ListNext == ListCreate \/ ListRemove \/ ListCommit

SpecList == ListInit /\ [][ListNext]_vars

\* ------------------------------------------------ metadata round trips
\* the entries a Metadata value can hold, the malformed Some("") included
MetaEntries == {RefNone, RefSome(NoRef), RefSome(Main), RefSome(Tag)}

\* the Metadata values put through save_metadata and load_metadata
MetaValues ==
    [name : {WsA, <<"b">>}, branch : {WsA, <<"p", "/", "a">>},
     repos : UNION {[D -> MetaEntries] : D \in SUBSET {IdX, IdY}}]

MetaInit ==
    /\ ws = [n \in ValidNames |-> NoDir]
    /\ mirrors = [id \in MirrorIds |-> FreshMirror(id = IdX)]
    /\ last = Last("init", <<>>, FALSE, FALSE, "ok")
    /\ ops = 0
    /\ fx = NoFetchRun
    /\ cc = NoCalls
    /\ dt = NoDetect
    /\ \E m \in MetaValues : rt = [pc |-> "new", m |-> m]

\* save_metadata: the file holds the serialized value
MetaSave ==
    /\ rt.pc = "new"
    /\ rt' = [pc |-> "saved", m |-> rt.m, file |-> to_yaml(rt.m)]
    /\ UNCHANGED <<ws, mirrors, last, ops, fx, cc, dt>>

\* load_metadata: the file is read back
MetaLoad ==
    /\ rt.pc = "saved"
    /\ rt' = [pc |-> "loaded", m |-> rt.m, file |-> rt.file,
              loaded |-> from_yaml(rt.file)]
    /\ UNCHANGED <<ws, mirrors, last, ops, fx, cc, dt>>

MetaNext == MetaSave \/ MetaLoad

SpecMeta == MetaInit /\ [][MetaNext]_vars

\* ---------------------------------------------------- `ws fetch` command
\* the resolved (identity, mirror) lists a run is started on: every
\* non-empty list of distinct identities
FetchRequests ==
    {q \in UNION {[1..k -> LayoutIds] : k \in 1..Cardinality(LayoutIds)} :
        \A i, j \in DOMAIN q : i # j => q[i] # q[j]}

\* Result<()> of git::fetch; the error text names the mirror
FetchOk == [ok |-> TRUE, error |-> <<>>]
FetchErr(id) == [ok |-> FALSE, error |-> <<"fetch failed">> \o id]

\* a spawned closure before it has run
NewThread == [pc |-> "idle", fetches |-> 0, result |-> FetchOk]

\* the two commands that fetch mirrors in parallel: `ws fetch`, and the
\* pre-fetch of `ws new`
FetchCmds == {"fetch", "new"}

FetchInit ==
    /\ ws = [n \in ValidNames |-> NoDir]
    /\ mirrors = [id \in MirrorIds |-> FreshMirror(id = IdX)]
    /\ last = Last("init", <<>>, FALSE, FALSE, "ok")
    /\ ops = 0
    /\ rt = NoRoundTrip
    /\ cc = NoCalls
    /\ dt = NoDetect
    /\ \E q \in FetchRequests, cmd \in FetchCmds :
         \E hangs \in SUBSET DOMAIN q :
           fx = [pc |-> "spawning", cmd |-> cmd, repos |-> q,
                 hangs |-> hangs,
                 th |-> [i \in DOMAIN q |-> NewThread],
                 lock |-> 0, acq |-> <<>>, lines |-> <<>>,
                 results |-> <<>>, output |-> <<>>]

FetchStep(f) ==
    /\ fx' = f
    /\ UNCHANGED <<ws, mirrors, last, ops, rt, cc, dt>>

\* repos.iter().map(|..| s.spawn(..)).collect(): one thread per entry, in
\* order; every handle is collected before the first join
FetchSpawn ==
    /\ fx.pc = "spawning"
    /\ LET i == Cardinality({k \in DOMAIN fx.th : fx.th[k].pc # "idle"}) + 1
           f == [fx EXCEPT !.th[i].pc = "fetch"]
       IN  FetchStep(IF i = Len(fx.repos) THEN [f EXCEPT !.pc = "joining"]
                     ELSE f)

\* the closure's git::fetch(mirror_dir, prune) returns; the backend calls
\* of fx.hangs never do
FetchRun(i) ==
    /\ fx.th[i].pc = "fetch"
    /\ i \notin fx.hangs
    /\ \E res \in {FetchOk, FetchErr(fx.repos[i])} :
         FetchStep([fx EXCEPT !.th[i].pc = "lock",
                              !.th[i].fetches = @ + 1,
                              !.th[i].result = res])

\* a lock that is handed out while another thread holds it
lock_shared(f) == TRUE

\* Mutex::lock returns once no thread holds the guard
lock_free(f) == f.lock = 0

\* progress.lock(): acq is the order in which the guard was handed out
FetchLock(i) ==
    /\ fx.th[i].pc = "lock"
    /\ lock_free(fx)
    /\ FetchStep([fx EXCEPT !.th[i].pc = "print", !.lock = i,
                            !.acq = Append(@, i)])

\* the progress line of a result: "  ok    <name>" or "  FAIL  <name> (..)"
ProgressLine(i, result) == [w |-> i, ok |-> result.ok]

\* a guard that outlives the closure
guard_kept(f, i) == f.lock

\* _lock goes out of scope at the end of the closure: the mutex is free
guard_dropped(f, i) == 0

\* the progress line is printed, the closure returns its result and the
\* guard is dropped
FetchPrint(i) ==
    /\ fx.th[i].pc = "print"
    /\ FetchStep([fx EXCEPT !.th[i].pc = "done",
                            !.lock = guard_dropped(fx, i),
                            !.lines = Append(@, ProgressLine(i, fx.th[i].result))])

\* the threads already joined
Joined(f) == {i \in DOMAIN f.repos :
                \E k \in DOMAIN f.results : f.results[k].id = f.repos[i]}

\* a join order that takes the threads as they finish
join_as_finished(f) ==
    LET left == {k \in DOMAIN f.lines : f.lines[k].w \notin Joined(f)}
    IN  IF left = {} THEN Len(f.results) + 1
        ELSE f.lines[CHOOSE k \in left : \A l \in left : k <= l].w

\* repos.iter().zip(handles): the handles are joined in request order
join_next(f) == Len(f.results) + 1

\* a join that does not wait for the thread
join_detached(f, j) == TRUE

\* h.join() returns once the thread of the handle has finished
joinable(f, j) == f.th[j].pc = "done"

\* h.join(): the next handle's thread has finished, its result is paired
\* with its identity
FetchJoin ==
    /\ fx.pc = "joining" /\ fx.cmd = "fetch"
    /\ LET j == join_next(fx)
       IN  /\ j \in DOMAIN fx.repos
           /\ joinable(fx, j)
           /\ FetchStep([fx EXCEPT !.results =
                           Append(@, [id |-> fx.repos[j],
                                      result |-> fx.th[j].result])])

\* FetchRepoResult of one collected pair
FetchRepoResult(pair) ==
    [identity |-> pair.id, ok |-> pair.result.ok,
     error |-> IF pair.result.ok THEN <<>> ELSE pair.result.error]

\* the scope has ended: FetchOutput is built from the collected results
FetchReturn ==
    /\ fx.pc = "joining" /\ fx.cmd = "fetch"
    /\ Len(fx.results) = Len(fx.repos)
    /\ FetchStep([fx EXCEPT !.pc = "done",
                            !.output = [k \in DOMAIN fx.results |->
                                          FetchRepoResult(fx.results[k])]])

\* `ws new`: for h in handles { let _ = h.join(); } - the handles are
\* joined in order and what the threads return is dropped
NewJoin ==
    /\ fx.pc = "joining" /\ fx.cmd = "new"
    /\ LET j == join_next(fx)
       IN  /\ j \in DOMAIN fx.repos
           /\ joinable(fx, j)
           /\ FetchStep([fx EXCEPT !.results = Append(@, [id |-> fx.repos[j]])])

\* `ws new`: the scope has ended, the command goes on to workspace::create
NewPrefetched ==
    /\ fx.pc = "joining" /\ fx.cmd = "new"
    /\ Len(fx.results) = Len(fx.repos)
    /\ FetchStep([fx EXCEPT !.pc = "prefetched"])

FetchNext ==
    \/ FetchSpawn
    \/ \E i \in DOMAIN fx.repos :
          FetchRun(i) \/ FetchLock(i) \/ FetchPrint(i)
    \/ FetchJoin
    \/ FetchReturn
    \/ NewJoin
    \/ NewPrefetched

SpecFetch == FetchInit /\ [][FetchNext]_vars

\* the largest number of threads of a run
MaxThreads == Cardinality(LayoutIds)

\* the scheduling of a run: the coordinator and every spawned thread go on
\* running; a thread waiting for the lock gets it once it stays free
FetchFairness ==
    /\ WF_vars(FetchSpawn)
    /\ \A i \in 1..MaxThreads :
          /\ WF_vars(i \in DOMAIN fx.repos /\ FetchRun(i))
          /\ WF_vars(i \in DOMAIN fx.repos /\ FetchLock(i))
          /\ WF_vars(i \in DOMAIN fx.repos /\ FetchPrint(i))
    /\ WF_vars(FetchJoin)
    /\ WF_vars(FetchReturn)
    /\ WF_vars(NewJoin)
    /\ WF_vars(NewPrefetched)

SpecFetchLive == FetchInit /\ [][FetchNext]_vars /\ FetchFairness

\* ------------------------------------------ bulk operations on a workspace
\* remove, has_pending_changes and `ws fetch` on a workspace whose metadata
\* file has been edited by hand: it holds a key that is not an identity.
\* (create and add_repos never write such a key: add_worktree fails on it
\* first.)  A command runs to its end before the next operation starts.
BulkIds == {IdX, IdY}
BulkRefMaps == UNION {[D -> Refs] : D \in SUBSET BulkIds \ {{}}}

\* no `ws fetch` has been run
NoFetchYet ==
    [pc |-> "none", cmd |-> "fetch", identities |-> <<>>, repos |-> <<>>,
     hangs |-> {}, th |-> <<>>, lock |-> 0, acq |-> <<>>, lines |-> <<>>,
     results |-> <<>>, output |-> <<>>]

BulkInit ==
    /\ ws = [n \in ValidNames |-> NoDir]
    /\ mirrors = [id \in MirrorIds |-> FreshMirror(id = IdX)]
    /\ last = Last("init", <<>>, FALSE, FALSE, "ok")
    /\ ops = 0
    /\ rt = NoRoundTrip
    /\ fx = NoFetchYet
    /\ cc = NoCalls
    /\ dt = NoDetect

BulkCreate == fx.pc = "none" /\ CreateFor(ValidNames, BulkRefMaps)

BulkRemove == fx.pc = "none" /\ Remove

BulkEdit == fx.pc = "none" /\ Edit

\* the user adds an entry to the repos map of the metadata file
EditMetadata ==
    \E n \in ValidNames, e \in {RefNone, RefSome(Main)} :
        /\ fx.pc = "none"
        /\ load_ok(State, n)
        /\ IdBad \notin DOMAIN ws[n].repos
        /\ Step([State EXCEPT !.ws[n].repos = Put(@, IdBad, e)],
                Last("edit metadata", n, FALSE, FALSE, "ok"))

\* a resolution that keeps the identities that do not parse
resolve_all(identities) == identities

\* identities.into_iter().filter_map(..): the identities that parse, each
\* with its mirror
resolve(identities) == SelectSeq(identities, parse_ok)

\* `ws fetch` is run inside workspace n: meta.repos.keys() are resolved and
\* the scope is entered
BulkFetchStart ==
    \E n \in ValidNames :
        /\ fx.pc = "none"
        /\ load_ok(State, n)
        /\ LET identities == Keys(ws[n].repos)
               repos == resolve(identities)
           IN  FetchStep([pc |-> IF repos = <<>> THEN "joining" ELSE "spawning",
                          cmd |-> "fetch", identities |-> identities,
                          repos |-> repos, hangs |-> {},
                          th |-> [i \in DOMAIN repos |-> NewThread],
                          lock |-> 0, acq |-> <<>>, lines |-> <<>>,
                          results |-> <<>>, output |-> <<>>])

BulkNext ==
    \/ BulkCreate \/ EditMetadata \/ BulkEdit \/ BulkRemove
    \/ BulkFetchStart
    \/ FetchSpawn
    \/ \E i \in DOMAIN fx.repos :
          FetchRun(i) \/ FetchLock(i) \/ FetchPrint(i)
    \/ FetchJoin
    \/ FetchReturn

SpecBulk == BulkInit /\ [][BulkNext]_vars /\ FetchFairness

\* ------------------------------------------------------ `ws new` command
\* A run of `ws new <name> <repos..> [--no-fetch]`: the pre-fetch of the
\* requested mirrors, then workspace::create.

\* the mirrors to pre-fetch: the requested identities that parse, in key
\* order
prefetch_mirrors(repo_refs) == SelectSeq(Keys(repo_refs), parse_ok)

\* a pre-fetch that does not look at --no-fetch
prefetch_always(no_fetch, mirrs) == mirrs # <<>>

\* if !no_fetch { .. if !mirrors.is_empty() { .. } }
prefetch_wanted(no_fetch, mirrs) == ~no_fetch /\ mirrs # <<>>

\* a command that gives up when a pre-fetch has failed
prefetch_error_propagated(f) == \E i \in DOMAIN f.th : ~f.th[i].result.ok

\* the closures return (), and `let _ = h.join()` drops what join returns:
\* no result of a pre-fetch reaches the command
prefetch_fatal(f) == FALSE

\* workspaces root and mirrors before the command
FreshState ==
    [ws |-> [n \in ValidNames |-> NoDir],
     mirrors |-> [id \in MirrorIds |-> FreshMirror(id = IdX)]]

NewInit ==
    /\ ws = FreshState.ws
    /\ mirrors = FreshState.mirrors
    /\ last = Last("init", <<>>, FALSE, FALSE, "ok")
    /\ ops = 0
    /\ rt = NoRoundTrip
    /\ cc = NoCalls
    /\ dt = NoDetect
    /\ \E repo_refs \in RepoRefMaps, no_fetch \in BOOLEAN :
         \E hangs \in SUBSET DOMAIN prefetch_mirrors(repo_refs) :
           fx = [pc |-> "start", cmd |-> "new", name |-> WsA,
                 repo_refs |-> repo_refs, no_fetch |-> no_fetch,
                 repos |-> <<>>, hangs |-> hangs, th |-> <<>>,
                 lock |-> 0, acq |-> <<>>, lines |-> <<>>,
                 results |-> <<>>, output |-> <<>>,
                 faults |-> {}, res |-> "none"]

\* the command reaches the pre-fetch block: the threads are set up, or the
\* block is passed over
NewStart ==
    /\ fx.pc = "start"
    /\ LET mirrs == prefetch_mirrors(fx.repo_refs)
       IN  FetchStep(IF prefetch_wanted(fx.no_fetch, mirrs)
                     THEN [fx EXCEPT !.pc = "spawning", !.repos = mirrs,
                                     !.th = [i \in DOMAIN mirrs |-> NewThread]]
                     ELSE [fx EXCEPT !.pc = "prefetched"])

\* workspace::create(ws_name, &repo_refs)?
NewCreate ==
    /\ fx.pc = "prefetched"
    /\ IF prefetch_fatal(fx)
       THEN FetchStep([fx EXCEPT !.pc = "done", !.res = "FetchFailed"])
       ELSE \E F \in CreateFaults(fx.name, fx.repo_refs) :
              LET r == create(State, fx.name, fx.repo_refs, F)
              IN  /\ ws' = r.st.ws
                  /\ mirrors' = r.st.mirrors
                  /\ fx' = [fx EXCEPT !.pc = "done", !.faults = F,
                                      !.res = r.res]
                  /\ last' = Last("ws new", fx.name, FALSE, FALSE, r.res)
                  /\ UNCHANGED <<ops, rt, cc, dt>>

NewNext ==
    \/ NewStart
    \/ FetchSpawn
    \/ \E i \in DOMAIN fx.repos :
          FetchRun(i) \/ FetchLock(i) \/ FetchPrint(i)
    \/ NewJoin
    \/ NewPrefetched
    \/ NewCreate

\* the command and its threads go on running
NewFairness ==
    /\ FetchFairness
    /\ WF_vars(NewStart)
    /\ WF_vars(NewCreate)

SpecNew == NewInit /\ [][NewNext]_vars /\ NewFairness

\* ------------------------------------------- concurrent add_repos calls
\* Two add_repos calls on the same workspace, each in its own process.
\* A call is a sequence of file-system and backend steps: load_metadata,
\* one step per requested identity, save_metadata; the steps of the two
\* calls interleave freely, since the code takes no lock.
Procs == {1, 2}

\* the requests of the two calls: one or two identities each
RaceRefMaps ==
    UNION {[D -> Refs] : D \in {E \in SUBSET RaceIds : Cardinality(E) \in 1..2}}

\* a call that has not started
NewCall(repo_refs) ==
    [pc |-> "load", repo_refs |-> repo_refs, keys |-> Keys(repo_refs),
     loaded |-> <<>>, meta |-> NoDir, done |-> {}, res |-> "running"]

\* the workspace the calls run on: created with one Active repo
RaceInit ==
    /\ \E id \in RaceIds :
         LET st0 == [ws |-> [n \in ValidNames |-> NoDir],
                     mirrors |-> [i \in RaceIds |-> FreshMirror(i = IdX)]]
             r == create(st0, WsA, id :> NoRef, {})
         IN  ws = r.st.ws /\ mirrors = r.st.mirrors
    /\ last = Last("init", <<>>, FALSE, FALSE, "ok")
    /\ ops = 0
    /\ rt = NoRoundTrip
    /\ fx = NoFetchRun
    /\ dt = NoDetect
    /\ \E r1, r2 \in RaceRefMaps :
         cc = [pc |-> "running", n |-> WsA,
               call |-> [p \in Procs |-> NewCall(IF p = 1 THEN r1 ELSE r2)],
               saved |-> <<>>]

RaceStep(st, c) ==
    /\ ws' = st.ws
    /\ mirrors' = st.mirrors
    /\ cc' = c
    /\ UNCHANGED <<last, ops, rt, fx, dt>>

\* let mut meta = load_metadata(ws_dir)?
RaceLoad(p) ==
    /\ cc.pc = "running" /\ cc.call[p].pc = "load"
    /\ IF ~load_ok(State, cc.n)
       THEN RaceStep(State, [cc EXCEPT !.call[p].pc = "done",
                                       !.call[p].res = "MetadataError"])
       ELSE RaceStep(State, [cc EXCEPT !.call[p].pc = "loop",
                                       !.call[p].loaded = ws[cc.n].repos,
                                       !.call[p].meta = ws[cc.n]])

\* one turn of the loop over repo_refs: the identity is passed over when
\* the loaded metadata has it, else it is attached and inserted in the
\* loaded metadata; a failed attach ends the call
RaceAttach(p) ==
    /\ cc.pc = "running" /\ cc.call[p].pc = "loop" /\ cc.call[p].keys # <<>>
    /\ LET c == cc.call[p]
           id == Head(c.keys)
       IN  IF id \in already_present(c.meta)
           THEN RaceStep(State, [cc EXCEPT !.call[p].keys = Tail(@)])
           ELSE \E F \in SUBSET {<<"worktree_add", id>>} :
                  LET a == add_worktree(State, cc.n, id, c.meta.branch,
                                        c.repo_refs[id], F)
                  IN  IF ~a.ok
                      THEN RaceStep(a.st, [cc EXCEPT
                                 !.call[p].pc = "done",
                                 !.call[p].res = "AttachFailed"])
                      ELSE RaceStep(a.st, [cc EXCEPT
                                 !.call[p].keys = Tail(@),
                                 !.call[p].done = @ \cup {id},
                                 !.call[p].meta.repos =
                                     Put(@, id, StoredRef(c.repo_refs[id]))])

\* save_metadata(ws_dir, &meta)
RaceSave(p) ==
    /\ cc.pc = "running" /\ cc.call[p].pc = "loop" /\ cc.call[p].keys = <<>>
    /\ LET c == cc.call[p]
       IN  RaceStep(save_metadata(State, cc.n, c.meta.name, c.meta.branch,
                                  c.meta.repos),
                    [cc EXCEPT !.call[p].pc = "done", !.call[p].res = "ok",
                               !.saved = Append(@, p)])

RaceNext == \E p \in Procs : RaceLoad(p) \/ RaceAttach(p) \/ RaceSave(p)

SpecRace == RaceInit /\ [][RaceNext]_vars

\* ------------------------------------------------------------- detect
\* An absolute path is the sequence of its components below the file-system
\* root, which is the empty sequence.  A file system is the set of the
\* directories that hold the metadata file.
DirNames == {"a", "b"}
\* the deepest start directory
MaxDepth == 2
Paths == UNION {[1..k -> DirNames] : k \in 0..MaxDepth}
\* the file systems: at most two directories hold a metadata file
FileSystems == {fs \in SUBSET Paths : Cardinality(fs) <= 2}

\* Option<&Path>
NoPath == [some |-> FALSE, path |-> <<>>]
SomePath(q) == [some |-> TRUE, path |-> q]

\* a parent that is the root of the file system for every directory
parent_root(dir) == IF dir = <<>> THEN NoPath ELSE SomePath(<<>>)

\* Path::parent: the path without its last component, None for the root
parent(dir) ==
    IF dir = <<>> THEN NoPath ELSE SomePath(SubSeq(dir, 1, Len(dir) - 1))

\* dir.join(METADATA_FILE).exists()
has_metadata_file(fs, dir) == dir \in fs

\* detect is called on the current directory
DetectInit ==
    /\ ws = [n \in ValidNames |-> NoDir]
    /\ mirrors = [id \in MirrorIds |-> FreshMirror(id = IdX)]
    /\ last = Last("init", <<>>, FALSE, FALSE, "ok")
    /\ ops = 0
    /\ rt = NoRoundTrip
    /\ fx = NoFetchRun
    /\ cc = NoCalls
    /\ \E fs \in FileSystems, start_dir \in Paths :
         dt = [pc |-> "loop", fs |-> fs, start_dir |-> start_dir,
               dir |-> start_dir, turns |-> 0]

DetectStep(d) ==
    /\ dt' = d
    /\ UNCHANGED <<ws, mirrors, last, ops, rt, fx, cc>>

\* the metadata file is in dir: return Ok(dir)
DetectFound ==
    /\ dt.pc = "loop"
    /\ has_metadata_file(dt.fs, dt.dir)
    /\ DetectStep([dt EXCEPT !.pc = "ok", !.turns = @ + 1])

\* it is not, and dir has a parent other than itself: go on from there
DetectUp ==
    /\ dt.pc = "loop"
    /\ ~has_metadata_file(dt.fs, dt.dir)
    /\ LET up == parent(dt.dir)
       IN  /\ up.some /\ up.path # dt.dir
           /\ DetectStep([dt EXCEPT !.dir = up.path, !.turns = @ + 1])

\* it is not, and dir has no parent: bail!("not in a workspace ..")
DetectBail ==
    /\ dt.pc = "loop"
    /\ ~has_metadata_file(dt.fs, dt.dir)
    /\ LET up == parent(dt.dir)
       IN  /\ ~(up.some /\ up.path # dt.dir)
           /\ DetectStep([dt EXCEPT !.pc = "NotInWorkspace", !.turns = @ + 1])

DetectNext == DetectFound \/ DetectUp \/ DetectBail

\* the call goes on running until it returns
SpecDetect == DetectInit /\ [][DetectNext]_vars /\ WF_vars(DetectNext)

\* ============================================================== claims
\* In the formulas below a call is evaluated in the current state: the
\* formula holds of a state when every call of the operation that can be
\* made in that state, with every fault set, has the stated outcome.

Calls(log, kinds) == {i \in 1..Len(log) : log[i].call \in kinds}

\* the calls of remove's destructive phase
Destructive == {"worktree_remove", "branch_delete", "remove_dir_all"}

\* the repos of a workspace's metadata with a mirror: Context are those
\* pinned to a non-empty ref, Active the others
ContextOf(name) ==
    {id \in DOMAIN ws[name].repos \cap MirrorIds :
        ws[name].repos[id].some /\ ws[name].repos[id].ref # NoRef}
ActiveOf(name) == (DOMAIN ws[name].repos \cap MirrorIds) \ ContextOf(name)

\* the merge check of this call reported the branch of id merged
MergedVerdict(log, id) ==
    \E i \in Calls(log, {"branch_is_merged"}) : log[i].id = id /\ log[i].ok

\* what the mirror's data says about the branch once the fetch of this call
\* was attempted: not merged into the default branch
UnmergedAtGate(id, b, F) ==
    /\ b \in mirrors[id].unmerged
    /\ (b \in mirrors[id].landed => Fails(F, "fetch", id))

\* C1: atomic create.  Whenever create fails because an attach failed,
\* the workspace directory does not exist on return if the cleanup's
\* directory removal succeeded, and the call never wrote the metadata file.
C1_AtomicCreate ==
    \A name \in Names, repo_refs \in RepoRefMaps :
      \A F \in CreateFaults(name, repo_refs) :
        LET r == create(State, name, repo_refs, F)
        IN  r.res = "AttachFailed" =>
              /\ (RmDir \notin F => ~r.st.ws[name].exists)
              /\ ~r.st.ws[name].meta
              /\ Calls(r.log, {"save_metadata"}) = {}

\* a create has failed at an attach after an earlier attach had created the
\* shared branch in a mirror, and the workspace directory is gone
C1_Witness ==
    /\ last.op = "create" /\ last.res = "AttachFailed"
    /\ ~ws[last.name].exists
    /\ \E id \in MirrorIds : last.name \in mirrors[id].branches

\* C2: merge-gate soundness.  In every remove(name, force=false) that
\* reaches the destructive phase, every Active repo whose shared branch
\* existed in its mirror had that branch reported merged by the merge check
\* of the same call.
C2_MergeGateSound ==
    \A name \in ValidNames :
      \A F \in RemoveFaults(name, FALSE) :
        LET r == remove(State, name, FALSE, F)
        IN  Calls(r.log, Destructive) # {} =>
              \A id \in ActiveOf(name) :
                branch_exists(mirrors[id], ws[name].branch)
                  => MergedVerdict(r.log, id)

\* the same, for the calls in which default_branch resolves for every
\* Active repo: there the gate is sound
C2_SoundWhenDefaultResolves ==
    \A name \in ValidNames :
      \A F \in RemoveFaults(name, FALSE) :
        LET r == remove(State, name, FALSE, F)
        IN  /\ Calls(r.log, Destructive) # {}
            /\ \A id \in MirrorIds : ~Fails(F, "default_branch", id)
            => \A id \in ActiveOf(name) :
                 branch_exists(mirrors[id], ws[name].branch)
                   => MergedVerdict(r.log, id)

\* remove(name, false) was refused and changed nothing of the workspace
\* or of the branches and worktrees of the mirrors
Denied(r, name) ==
    /\ r.res = "UnmergedBranch"
    /\ r.st.ws = ws
    /\ \A id \in MirrorIds :
         /\ r.st.mirrors[id].branches = mirrors[id].branches
         /\ r.st.mirrors[id].wts = mirrors[id].wts
    /\ Calls(r.log, Destructive) = {}

\* C3: merge-gate deny.  When some Active repo's shared branch exists in its
\* mirror and is not merged, remove(name, force=false) returns the
\* unmerged-branch error, performs no worktree_remove, branch_delete or
\* directory removal, and leaves the workspace and the mirrors' branches
\* and worktrees as they were.
C3_MergeGateDeny ==
    \A name \in ValidNames :
      \A F \in RemoveFaults(name, FALSE) :
        (/\ load_ok(State, name)
         /\ \E id \in ActiveOf(name) :
              /\ branch_exists(mirrors[id], ws[name].branch)
              /\ UnmergedAtGate(id, ws[name].branch, F))
        => Denied(remove(State, name, FALSE, F), name)

\* the same, when default_branch resolves for the unmerged repo
C3_DenyWhenDefaultResolves ==
    \A name \in ValidNames :
      \A F \in RemoveFaults(name, FALSE) :
        (/\ load_ok(State, name)
         /\ \E id \in ActiveOf(name) :
              /\ branch_exists(mirrors[id], ws[name].branch)
              /\ UnmergedAtGate(id, ws[name].branch, F)
              /\ ~Fails(F, "default_branch", id))
        => Denied(remove(State, name, FALSE, F), name)

\* a loaded workspace with an Active repo whose shared branch exists in its
\* mirror and is ahead of the default branch
HasUnmerged(name, id) ==
    /\ load_ok(State, name)
    /\ id \in ActiveOf(name)
    /\ branch_exists(mirrors[id], ws[name].branch)
    /\ ws[name].branch \in mirrors[id].unmerged

\* C4 as stated: merge-gate override.  remove(name, force=true) on a
\* workspace with an Active repo whose shared branch is not merged performs
\* no merge check, succeeds, and on return the workspace directory and the
\* shared branch in that repo's mirror no longer exist.
C4_ForceOverride ==
    \A name \in ValidNames, id \in MirrorIds :
      \A F \in RemoveFaults(name, TRUE) :
        HasUnmerged(name, id) =>
          LET r == remove(State, name, TRUE, F)
          IN  /\ Calls(r.log, {"branch_is_merged"}) = {}
              /\ r.res = "ok"
              /\ ~r.st.ws[name].exists
              /\ ~branch_exists(r.st.mirrors[id], ws[name].branch)

\* C4 as amended: the forced remove performs no merge check and is never
\* refused; it succeeds exactly when the final directory removal succeeds,
\* and then the workspace directory no longer exists; the shared branch no
\* longer exists in the repo's mirror unless its branch_delete failed.
C4_ForceOverrideBestEffort ==
    \A name \in ValidNames, id \in MirrorIds :
      \A F \in RemoveFaults(name, TRUE) :
        HasUnmerged(name, id) =>
          LET r == remove(State, name, TRUE, F)
          IN  /\ Calls(r.log, {"branch_is_merged"}) = {}
              /\ r.res = IF RmDir \in F THEN "IoError" ELSE "ok"
              /\ (r.res = "ok" => ~r.st.ws[name].exists)
              /\ (~Fails(F, "branch_delete", id)
                    => ~branch_exists(r.st.mirrors[id], ws[name].branch))

\* a workspace with an unmerged Active branch, from which the forced remove
\* succeeds and deletes the directory and the branch
C4_Witness ==
    \E name \in ValidNames, id \in MirrorIds :
        /\ HasUnmerged(name, id)
        /\ last.op = "commit"
        /\ LET r == remove(State, name, TRUE, {})
           IN  /\ r.res = "ok"
               /\ ~r.st.ws[name].exists
               /\ ~branch_exists(r.st.mirrors[id], ws[name].branch)

\* some repo of the workspace has uncommitted changes or commits ahead
HasPending(name) ==
    /\ load_ok(State, name)
    /\ has_pending_changes(State, name).dirty # <<>>

\* C5: the --force flag of `ws remove` overrides both safety gates: a
\* forced invocation on a workspace with pending changes and/or an unmerged
\* shared branch is not refused with a pending-changes or an
\* unmerged-branch error.  (A refused remove leaves the workspace and the
\* unmerged branch as they were, so the state after the command still
\* shows what the command was run on.)
C5_ForceFlagOverridesGates ==
    (/\ last.op = "ws remove" /\ last.force
     /\ \/ HasPending(last.name)
        \/ \E id \in MirrorIds : HasUnmerged(last.name, id))
    => last.res \notin {"PendingChanges", "UnmergedBranch"}

\* C6: Context repos untouched.  For both values of force, remove never
\* calls branch_delete (nor fetch) on the mirror of a Context repo, and the
\* branches and refs of that mirror, the pinned ref among them, are the
\* same after the call as before it.
C6_ContextUntouched ==
    \A name \in ValidNames, force \in BOOLEAN :
      \A F \in RemoveFaults(name, force) :
        LET r == remove(State, name, force, F)
        IN  \A id \in ContextOf(name) :
              /\ \A i \in Calls(r.log, {"branch_delete", "fetch"}) :
                    r.log[i].id # id
              /\ r.st.mirrors[id].exists = mirrors[id].exists
              /\ r.st.mirrors[id].branches = mirrors[id].branches
              /\ r.st.mirrors[id].remotes = mirrors[id].remotes
              /\ r.st.mirrors[id].unmerged = mirrors[id].unmerged
              /\ r.st.mirrors[id].landed = mirrors[id].landed

\* a remove has run its destructive phase on a workspace with a Context
\* repo (the final directory removal failed, so the metadata still shows
\* it): the worktree is detached and the pinned branch is still in the
\* mirror, which also holds a branch named as the workspace's shared branch
C6_Witness ==
    /\ last.op = "remove" /\ last.res = "IoError"
    /\ \E id \in ContextOf(last.name) :
         /\ ws[last.name].repos[id].ref \in mirrors[id].branches
         /\ ws[last.name].branch \in mirrors[id].branches
         /\ <<last.name, Short(id)>> \notin mirrors[id].wts

\* the merge check of this call reported the branch of id not merged
UnmergedVerdict(log, id) ==
    \E i \in Calls(log, {"branch_is_merged"}) : log[i].id = id /\ ~log[i].ok

\* every verdict of the call is computed from the mirror's data as it is
\* after the fetch attempt (a merge check that errors counts as not merged)
VerdictsFromMirror(r, name, F) ==
    \A i \in Calls(r.log, {"branch_is_merged"}) :
        r.log[i].ok <=> (/\ ~Fails(F, "branch_is_merged", r.log[i].id)
                         /\ ~UnmergedAtGate(r.log[i].id, ws[name].branch, F))

\* every Active repo's branch was reported merged, or is absent
AllMergedOrAbsent(r, name) ==
    \A id \in ActiveOf(name) :
        \/ ~branch_exists(mirrors[id], ws[name].branch)
        \/ MergedVerdict(r.log, id)

EveryFetchFails(r, name) ==
    /\ ActiveOf(name) # {}
    /\ \A id \in ActiveOf(name) :
         \E i \in Calls(r.log, {"fetch"}) : r.log[i].id = id /\ ~r.log[i].ok

\* C7 as stated: a fetch failure during remove is never fatal.  Whatever
\* the fetch outcomes, remove(force=false) either succeeds or is refused at
\* the merge gate, and which of the two is decided by the merge verdicts
\* alone, computed from the mirror's data after the fetch attempt; if every
\* Active repo's branch is merged or absent it succeeds, even when every
\* fetch fails.
C7_FetchNeverFatal ==
    \A name \in ValidNames :
      \A F \in RemoveFaults(name, FALSE) :
        load_ok(State, name) =>
          LET r == remove(State, name, FALSE, F)
              refused == \E id \in MirrorIds : UnmergedVerdict(r.log, id)
          IN  /\ VerdictsFromMirror(r, name, F)
              /\ r.res = IF refused THEN "UnmergedBranch" ELSE "ok"
              /\ (AllMergedOrAbsent(r, name) /\ EveryFetchFails(r, name)
                    => r.res = "ok")

\* C7 as amended: the same, except that a remove that passes the gate
\* succeeds only if its final directory removal succeeds (otherwise it
\* returns that I/O error).
C7_FetchNeverFatalPastGate ==
    \A name \in ValidNames :
      \A F \in RemoveFaults(name, FALSE) :
        load_ok(State, name) =>
          LET r == remove(State, name, FALSE, F)
              refused == \E id \in MirrorIds : UnmergedVerdict(r.log, id)
          IN  /\ VerdictsFromMirror(r, name, F)
              /\ r.res = IF refused THEN "UnmergedBranch"
                         ELSE IF RmDir \in F THEN "IoError" ELSE "ok"
              /\ ((AllMergedOrAbsent(r, name) /\ EveryFetchFails(r, name)
                     /\ RmDir \notin F)
                    => r.res = "ok")

\* a workspace with an Active repo whose branch exists: the remove whose
\* every fetch fails gets a merged verdict from the local data and succeeds
C7_Witness ==
    \E name \in ValidNames :
        /\ load_ok(State, name)
        /\ last.op = "create" /\ last.res = "ok"
        /\ LET F == {<<"fetch", id>> : id \in ActiveOf(name)}
               r == remove(State, name, FALSE, F)
           IN  /\ EveryFetchFails(r, name)
               /\ \E id \in ActiveOf(name) : MergedVerdict(r.log, id)
               /\ r.res = "ok"

\* every Active repo's existing branch is merged in the mirror's data once
\* the fetch of this call was attempted
AllMergedAtGate(name, F) ==
    \A id \in ActiveOf(name) :
        branch_exists(mirrors[id], ws[name].branch)
            => ~UnmergedAtGate(id, ws[name].branch, F)

\* C8 as stated: removing a workspace whose Active branches are all
\* merged.  remove(name, force=false) succeeds, and on return the workspace
\* directory does not exist and the shared branch exists in no Active
\* repo's mirror.
C8_RemoveMerged ==
    \A name \in ValidNames :
      \A F \in RemoveFaults(name, FALSE) :
        (load_ok(State, name) /\ AllMergedAtGate(name, F)) =>
          LET r == remove(State, name, FALSE, F)
          IN  /\ r.res = "ok"
              /\ ~r.st.ws[name].exists
              /\ \A id \in ActiveOf(name) :
                    ~branch_exists(r.st.mirrors[id], ws[name].branch)

\* C8 as amended: when no merge check errors, the remove passes the gate;
\* it succeeds exactly when the final directory removal succeeds, and
\* then the workspace directory does not exist; the shared branch is gone
\* from the mirror of every Active repo whose branch_delete did not fail.
C8_RemoveMergedBestEffort ==
    \A name \in ValidNames :
      \A F \in RemoveFaults(name, FALSE) :
        (/\ load_ok(State, name) /\ AllMergedAtGate(name, F)
         /\ \A id \in MirrorIds : ~Fails(F, "branch_is_merged", id)) =>
          LET r == remove(State, name, FALSE, F)
          IN  /\ r.res = IF RmDir \in F THEN "IoError" ELSE "ok"
              /\ (r.res = "ok" => ~r.st.ws[name].exists)
              /\ \A id \in ActiveOf(name) :
                    ~Fails(F, "branch_delete", id)
                      => ~branch_exists(r.st.mirrors[id], ws[name].branch)

\* a freshly created workspace with an Active repo whose merged branch is
\* in the mirror: the remove succeeds and deletes directory and branch
C8_Witness ==
    \E name \in ValidNames, id \in MirrorIds :
        /\ load_ok(State, name) /\ id \in ActiveOf(name)
        /\ last.op = "create" /\ last.res = "ok"
        /\ branch_exists(mirrors[id], ws[name].branch)
        /\ LET r == remove(State, name, FALSE, {})
           IN  /\ MergedVerdict(r.log, id)
               /\ r.res = "ok"
               /\ ~r.st.ws[name].exists
               /\ ~branch_exists(r.st.mirrors[id], ws[name].branch)

\* what one remove call may do to a mirror: nothing but fetch into it,
\* detach worktrees of the workspace and delete the shared branch
OnlyRemoveEffects(before, after, id, name, branch) ==
    /\ after.exists = before.exists
    /\ after.remotes = before.remotes
    /\ after.branches \subseteq before.branches
    /\ before.branches \ after.branches \subseteq {branch}
    /\ after.wts \subseteq before.wts
    /\ before.wts \ after.wts \subseteq {<<name, Short(id)>>}
    /\ after.unmerged \subseteq before.unmerged
    /\ before.unmerged \ after.unmerged \subseteq before.landed \cup {branch}
    /\ after.landed \subseteq before.landed

\* C9: no mirror is ever deleted by workspace removal.  In every state
\* reached by create, add_repos and remove calls, every remove call (forced
\* or not, whatever fails in it, through the library or the command) leaves
\* every existing mirror in existence, and changes a mirror only by
\* fetching into it, detaching worktrees and deleting the shared branch.
C9_NoMirrorDeleted ==
    \A name \in ValidNames, force \in BOOLEAN :
      \A F \in RemoveFaults(name, force) :
        LET r == remove(State, name, force, F)
            c == cli_remove_run(State, name, force, force, F)
        IN  \A id \in MirrorIds :
              /\ OnlyRemoveEffects(mirrors[id], r.st.mirrors[id], id, name,
                                   ws[name].branch)
              /\ OnlyRemoveEffects(mirrors[id], c.st.mirrors[id], id, name,
                                   ws[name].branch)

\* a remove went through its destructive phase (it failed only at the final
\* directory removal): the shared branch is gone from an Active repo's
\* mirror and the worktree is detached, but the mirror still exists
C9_Witness ==
    /\ last.op = "remove" /\ last.res = "IoError"
    /\ \E id \in ActiveOf(last.name) :
         /\ mirrors[id].exists
         /\ ~branch_exists(mirrors[id], ws[last.name].branch)
         /\ <<last.name, Short(id)>> \notin mirrors[id].wts

\* C10: no overwrite.  create on a name whose workspace directory already
\* exists fails with AlreadyExists before creating or attaching anything:
\* it makes no call at all (no directory creation, no attach, no rollback
\* removal) and leaves the directory, its metadata, its worktrees and every
\* mirror as they were.
C10_NoOverwrite ==
    \A name \in ValidNames, repo_refs \in RepoRefMaps :
      \A F \in FaultSets(AttachCalls(repo_refs)) :
        ws[name].exists =>
          LET r == create(State, name, repo_refs, F)
          IN  /\ r.res = "AlreadyExists"
              /\ r.log = <<>>
              /\ r.st = State

\* a create was refused on an existing workspace that has its metadata and
\* a worktree
C10_Witness ==
    /\ last.op = "create" /\ last.res = "AlreadyExists"
    /\ ws[last.name].exists /\ ws[last.name].meta
    /\ DOMAIN ws[last.name].wts # {}

\* the three backend calls that attach a worktree
AttachKinds == {"worktree_add", "worktree_add_existing", "worktree_add_detached"}

\* the worktree of id is in the workspace directory under the repo's short
\* name and is registered in id's mirror
Attached(st, n, id) ==
    /\ parse_ok(id)
    /\ Short(id) \in DOMAIN st.ws[n].wts
    /\ st.ws[n].wts[Short(id)].id = id
    /\ <<n, Short(id)>> \in st.mirrors[id].wts

\* C11: commit point of create.  In every create call, the metadata file
\* is written only after the attach of every requested identity has
\* succeeded: when the call returns with the metadata file in place it has
\* succeeded, the metadata lists the requested identities and a worktree
\* is attached for each of them.
C11_CommitPoint ==
    \A name \in ValidNames, repo_refs \in RepoRefMaps :
      \A F \in CreateFaults(name, repo_refs) :
        ~ws[name].exists =>
          LET r == create(State, name, repo_refs, F)
          IN  /\ \A i \in Calls(r.log, {"save_metadata"}) :
                    \A id \in DOMAIN repo_refs :
                      \E j \in 1..(i - 1) :
                        /\ r.log[j].call \in AttachKinds
                        /\ r.log[j].id = id /\ r.log[j].ok
              /\ r.st.ws[name].meta =>
                    /\ r.res = "ok"
                    /\ DOMAIN r.st.ws[name].repos = DOMAIN repo_refs
                    /\ \A id \in DOMAIN repo_refs : Attached(r.st, name, id)
              /\ r.res = "ok" => r.st.ws[name].meta

\* a create of two identities has succeeded: the metadata lists both and
\* both worktrees are attached
C11_Witness ==
    /\ last.op = "create" /\ last.res = "ok"
    /\ ws[last.name].meta
    /\ Cardinality(DOMAIN ws[last.name].repos) = 2
    /\ \A id \in DOMAIN ws[last.name].repos : Attached(State, last.name, id)

\* C12: idempotent, insert-only add_repos.  An identity already in the
\* metadata is passed over: no backend call is made for it and its RepoRef
\* stays as it was, whatever ref the call gives for it; no identity leaves
\* the metadata; and when every given identity is already present the call
\* succeeds and changes neither the repos, the worktrees nor the mirrors.
C12_AddReposInsertOnly ==
    \A n \in ValidNames, repo_refs \in RepoRefMaps :
      \A F \in AddFaults(n, repo_refs) :
        load_ok(State, n) =>
          LET r == add_repos(State, n, repo_refs, F)
              old == ws[n].repos
              new == r.st.ws[n].repos
          IN  /\ DOMAIN old \subseteq DOMAIN new
              /\ \A id \in DOMAIN old \cap DOMAIN repo_refs :
                    /\ new[id] = old[id]
                    /\ \A i \in 1..Len(r.log) : r.log[i].id # id
              /\ DOMAIN repo_refs \subseteq DOMAIN old =>
                    /\ r.res = "ok"
                    /\ new = old
                    /\ r.st.ws[n].wts = ws[n].wts
                    /\ r.st.mirrors = mirrors

\* after a successful add_repos, a workspace holds an Active repo that a
\* further add_repos, pinning it to a ref, passes over
C12_Witness ==
    /\ last.op = "add_repos" /\ last.res = "ok"
    /\ \E id \in DOMAIN ws[last.name].repos :
         /\ ws[last.name].repos[id] = RefNone
         /\ LET r == add_repos(State, last.name, id :> Main,
                               {<<"worktree_add", id>>})
            IN  /\ r.res = "ok"
                /\ r.st.ws[last.name].repos[id] = RefNone
                /\ r.st.ws[last.name].wts = ws[last.name].wts

\* the call stopped at its first failure: the failing backend call is the
\* last one it made
StoppedAtFailure(log) ==
    \A i \in 1..Len(log) : ~log[i].ok => i = Len(log)

\* C13: add_repos does not undo prior successes.  When the attach of a new
\* identity fails, add_repos returns that error, tries no later identity,
\* and the identities attached earlier in the call remain members of the
\* workspace: their worktrees are on disk and the metadata records them.
C13_AddReposKeepsSuccesses ==
    \A n \in ValidNames, repo_refs \in LayoutRefMaps :
      \A F \in AddFaults(n, repo_refs) :
        load_ok(State, n) =>
          LET r == add_repos(State, n, repo_refs, F)
          IN  r.res = "AttachFailed" =>
                /\ StoppedAtFailure(r.log)
                /\ \A id \in r.done :
                      /\ Attached(r.st, n, id)
                      /\ id \in DOMAIN r.st.ws[n].repos

\* the part of it that the code keeps: the call stops at the failure and
\* the worktrees attached earlier stay on disk
C13_WorktreesRemain ==
    \A n \in ValidNames, repo_refs \in LayoutRefMaps :
      \A F \in AddFaults(n, repo_refs) :
        load_ok(State, n) =>
          LET r == add_repos(State, n, repo_refs, F)
          IN  r.res = "AttachFailed" =>
                /\ StoppedAtFailure(r.log)
                /\ \A id \in r.done : Attached(r.st, n, id)

\* C14: workspace layout.  Every identity recorded in a workspace's
\* metadata has its worktree directory under the workspace root, named by
\* the identity's short name and holding the worktree of that identity, and
\* no two identities of a workspace have the same directory: two
\* identities with the same short name are never both in a workspace.
C14_Layout ==
    \A n \in ValidNames :
        ws[n].meta =>
          /\ \A id \in DOMAIN ws[n].repos : Attached(State, n, id)
          /\ \A id1, id2 \in DOMAIN ws[n].repos :
                id1 # id2 => Short(id1) # Short(id2)

\* a workspace of two identities after a successful add_repos, on which
\* adding the identity that shares a short name with one of them is refused
C14_Witness ==
    /\ last.op = "add_repos" /\ last.res = "ok"
    /\ DOMAIN ws[last.name].repos = {IdX, IdY}
    /\ LET r == add_repos(State, last.name, IdX2 :> NoRef, {})
       IN  /\ r.res = "AttachFailed"
           /\ r.st.ws = ws

\* a metadata entry in one of its two states: no ref record (Active), or a
\* record with a non-empty ref (Context)
ActiveEntry(e) == e = RefNone
ContextEntry(e) == e.some /\ e.ref # NoRef

\* the entry the metadata must hold for a requested ref
EntryFor(r) == IF r = NoRef THEN RefNone ELSE RefSome(r)

\* C15: RepoRef discriminator.  Every entry of a metadata file written by
\* create or add_repos is Active (no ref record) or Context with a
\* non-empty ref; an empty requested ref is stored as Active, a non-empty
\* one as Context with that ref; and remove takes for Active exactly the
\* entries with no non-empty ref.
C15_Discriminator ==
    /\ \A n \in ValidNames : \A id \in DOMAIN ws[n].repos :
          ActiveEntry(ws[n].repos[id]) \/ ContextEntry(ws[n].repos[id])
    /\ \A name \in ValidNames, repo_refs \in RepoRefMaps :
          /\ \A F \in CreateFaults(name, repo_refs) :
                LET r == create(State, name, repo_refs, F)
                IN  (~ws[name].exists /\ r.st.ws[name].meta) =>
                      \A id \in DOMAIN repo_refs :
                        r.st.ws[name].repos[id] = EntryFor(repo_refs[id])
          /\ \A F \in AddFaults(name, repo_refs) :
                LET r == add_repos(State, name, repo_refs, F)
                IN  \A id \in DOMAIN r.st.ws[name].repos \ DOMAIN ws[name].repos :
                      r.st.ws[name].repos[id] = EntryFor(repo_refs[id])
    /\ \A n \in ValidNames :
          load_ok(State, n) =>
            LET p == partition(State, ws[n].repos, Keys(ws[n].repos), {})
                parsed == {id \in DOMAIN ws[n].repos : parse_ok(id)}
            IN  /\ {p.active[i].id : i \in 1..Len(p.active)}
                     = {id \in parsed : ~ContextEntry(ws[n].repos[id])}
                /\ {p.context[i] : i \in 1..Len(p.context)}
                     = {id \in parsed : ContextEntry(ws[n].repos[id])}

\* a metadata file written by add_repos holds an Active and a Context entry
C15_Witness ==
    /\ last.op = "add_repos" /\ last.res = "ok"
    /\ \E id1, id2 \in DOMAIN ws[last.name].repos :
         /\ ActiveEntry(ws[last.name].repos[id1])
         /\ ContextEntry(ws[last.name].repos[id2])

\* C16: metadata round trip.  For every metadata value whose entries are
\* Active or Context with a non-empty ref, loading what save_metadata wrote
\* yields the same name, branch and set of identities, and for each
\* identity the same Active/Context state and the same ref string.
C16_RoundTrip ==
    (/\ rt.pc = "loaded"
     /\ \A id \in DOMAIN rt.m.repos :
           ActiveEntry(rt.m.repos[id]) \/ ContextEntry(rt.m.repos[id]))
    => /\ rt.loaded.ok
       /\ rt.loaded.name = rt.m.name
       /\ rt.loaded.branch = rt.m.branch
       /\ DOMAIN rt.loaded.repos = DOMAIN rt.m.repos
       /\ \A id \in DOMAIN rt.m.repos :
             /\ ActiveEntry(rt.loaded.repos[id]) <=> ActiveEntry(rt.m.repos[id])
             /\ ContextEntry(rt.loaded.repos[id]) <=> ContextEntry(rt.m.repos[id])
             /\ rt.loaded.repos[id].ref = rt.m.repos[id].ref

\* a value with an Active entry and a Context entry pinned to a tag has
\* been saved and loaded
C16_Witness ==
    /\ rt.pc = "loaded"
    /\ rt.loaded.ok
    /\ rt.m.repos = (IdX :> RefNone) @@ (IdY :> RefSome(Tag))
    /\ rt.file.f["repos"].f[IdX] = YNull
    /\ rt.loaded.repos[IdY] = RefSome(Tag)

\* the non-empty refs a repo is pinned to: a local branch, a branch the
\* mirror may hold as a remote-tracking ref only, a tag
PinnedRefs == {Main, Dev, Tag}

\* the failures of the backend calls of one add_worktree
AttachFaults(id) == SUBSET {<<"worktree_add", id>>, <<"default_branch", id>>}

\* C17: Context attach plan.  For a non-empty pinned ref add_worktree makes
\* exactly one backend call: worktree_add_existing of the local branch if
\* the mirror has it; otherwise worktree_add_existing of origin/<ref> if
\* the mirror has refs/remotes/origin/<ref>; otherwise
\* worktree_add_detached at the ref.  It never calls the new-branch
\* worktree_add nor default_branch, the mirror's local branches are
\* unchanged, and a failure of the call is returned with nothing changed.
C17_ContextPlan ==
    \A n \in ValidNames, id \in MirrorIds, ref \in PinnedRefs :
      \A F \in AttachFaults(id) :
        LET m == mirrors[id]
            r == add_worktree(State, n, id, n, ref, F)
            local == m.exists /\ ref \in m.branches
            remote == m.exists /\ ref \in m.remotes
        IN  /\ Len(r.log) = 1
            /\ r.log[1].id = id
            /\ r.log[1].call = IF local \/ remote THEN "worktree_add_existing"
                               ELSE "worktree_add_detached"
            /\ r.log[1].arg = IF local THEN ref
                              ELSE IF remote THEN <<"origin/">> \o ref
                              ELSE ref
            /\ r.ok = r.log[1].ok
            /\ r.st.mirrors[id].branches = m.branches
            /\ (~r.ok => r.st = State)
            /\ (r.ok => Attached(r.st, n, id))

\* a create has attached a Context repo at the local default branch without
\* creating the workspace branch in its mirror; from here a pin to Dev
\* goes to origin/Dev and a pin to the tag is attached detached
C17_Witness ==
    /\ last.op = "create" /\ last.res = "ok"
    /\ IdX \in ContextOf(last.name)
    /\ Attached(State, last.name, IdX)
    /\ ws[last.name].wts[Short(IdX)].co = Main
    /\ last.name \notin mirrors[IdX].branches
    /\ add_worktree(State, last.name, IdX, last.name, Dev, {}).log[1].arg
         = OriginRef(Dev)
    /\ add_worktree(State, last.name, IdX, last.name, Tag, {}).log[1].call
         = "worktree_add_detached"

\* C18: Active attach plan.  With no pinned ref add_worktree attaches the
\* shared branch with worktree_add_existing, without resolving the default
\* branch, when the mirror already has it; otherwise it resolves the default
\* branch D and creates the shared branch with worktree_add at origin/D
\* when the mirror has that remote-tracking ref, else at D; when the
\* resolution fails the call fails and nothing is attached.
C18_ActivePlan ==
    \A n \in ValidNames, id \in MirrorIds :
      \A F \in AttachFaults(id) :
        LET m == mirrors[id]
            r == add_worktree(State, n, id, n, NoRef, F)
            D == Main
        IN  IF m.exists /\ n \in m.branches
            THEN /\ Len(r.log) = 1
                 /\ r.log[1].call = "worktree_add_existing"
                 /\ r.log[1].arg = n
                 /\ r.ok = r.log[1].ok
            ELSE IF ~m.exists \/ Fails(F, "default_branch", id)
            THEN /\ ~r.ok
                 /\ r.st = State
                 /\ Calls(r.log, AttachKinds) = {}
            ELSE /\ Len(r.log) = 2
                 /\ r.log[1].call = "default_branch" /\ r.log[1].arg = D
                 /\ r.log[2].call = "worktree_add"
                 /\ r.log[2].arg = IF D \in m.remotes THEN <<"origin/">> \o D
                                   ELSE D
                 /\ r.ok = r.log[2].ok
                 /\ (r.ok => n \in r.st.mirrors[id].branches
                               /\ Attached(r.st, n, id))
                 /\ (~r.ok => r.st = State)

\* a create has attached two Active repos on the new shared branch, one
\* whose mirror has origin/<default> and one whose mirror has the local
\* default branch only; a further attach finds the branch and resolves no
\* default branch
C18_Witness ==
    /\ last.op = "create" /\ last.res = "ok"
    /\ ActiveOf(last.name) = {IdX, IdY}
    /\ \A id \in {IdX, IdY} :
         /\ Attached(State, last.name, id)
         /\ ws[last.name].wts[Short(id)].co = last.name
         /\ last.name \in mirrors[id].branches
         /\ add_worktree(State, last.name, id, last.name, NoRef, {}).log[1].call
              = "worktree_add_existing"
    /\ Main \in mirrors[IdX].remotes /\ Main \notin mirrors[IdY].remotes

\* the names validate_name is tried on: every string of up to three of
\* these characters
NameChars == {"a", ".", "/", "\\"}
NameInputs == UNION {[1..k -> NameChars] : k \in 0..3}

\* the names the specification rejects
InvalidNames ==
    {<<>>, <<".">>, <<".", ".">>}
    \cup {nm \in NameInputs : \E i \in DOMAIN nm : nm[i] \in {"/", "\\"}}

\* C19: name validation.  validate_name fails exactly for the empty name,
\* the names containing '/' or '\', and the names "." and "..", and accepts
\* every other name; create with an invalid name fails with InvalidName
\* before any call is made, and changes neither the workspaces nor the
\* mirrors.
C19_NameValidation ==
    /\ \A nm \in NameInputs : validate_name(nm) <=> nm \notin InvalidNames
    /\ \A nm \in Names \cap InvalidNames, repo_refs \in RepoRefMaps :
         \A F \in {{}, AttachCalls(repo_refs) \cup {RmDir}} :
           LET r == create(State, nm, repo_refs, F)
           IN  /\ r.res = "InvalidName"
               /\ r.log = <<>>
               /\ r.st = State

\* a create under the name ".." was refused while a workspace exists
C19_Witness ==
    /\ last.op = "create" /\ last.res = "InvalidName"
    /\ last.name = <<".", ".">>
    /\ ws[WsA].meta

\* C20: fetch coordinator fork-join.  A fetch run on n >= 1 resolved
\* identities starts at most one fetch per mirror at any time and exactly
\* one by its end, returns only when every fetch has completed, and its
\* output has one entry per requested identity, in request order, each
\* with the outcome of that identity's own fetch (ok, or its error text).
C20_ForkJoin ==
    /\ \A i \in DOMAIN fx.repos : fx.th[i].fetches <= 1
    /\ fx.pc = "done" =>
         /\ \A i \in DOMAIN fx.repos :
               fx.th[i].pc = "done" /\ fx.th[i].fetches = 1
         /\ Len(fx.output) = Len(fx.repos)
         /\ \A i \in DOMAIN fx.repos :
               /\ fx.output[i].identity = fx.repos[i]
               /\ fx.output[i].ok = fx.th[i].result.ok
               /\ fx.output[i].error = fx.th[i].result.error
               /\ (~fx.output[i].ok
                     => fx.output[i].error = <<"fetch failed">> \o fx.repos[i])

\* a run on three identities has returned; the fetches finished in the
\* reverse of the request order, the first failed and the others succeeded
C20_Witness ==
    /\ fx.pc = "done"
    /\ Len(fx.repos) = 3
    /\ [k \in DOMAIN fx.lines |-> fx.lines[k].w] = <<3, 2, 1>>
    /\ ~fx.output[1].ok /\ fx.output[2].ok /\ fx.output[3].ok

\* the workers whose progress lines are out, in the order of the lines
LineWorkers(f) == [k \in DOMAIN f.lines |-> f.lines[k].w]

\* the run has come to its end: `ws fetch` has built its output, `ws new`
\* goes on to create
Returned(f) == f.pc \in {"done", "prefetched"}

\* C21: progress lines never interleave.  In every interleaving of the
\* fetch workers of `ws fetch` and of the pre-fetch of `ws new`, at most one
\* worker is emitting its progress line at any time; a worker emits its one
\* line (ok or FAIL, as its own fetch ended) only after its own fetch has
\* finished, and exactly one by the end of the run; and the lines come in
\* the order in which the workers acquired the lock.
C21_NoInterleave ==
    /\ Cardinality({i \in DOMAIN fx.repos : fx.th[i].pc = "print"}) <= 1
    /\ \A i \in DOMAIN fx.repos :
          LET mine == {k \in DOMAIN fx.lines : fx.lines[k].w = i}
          IN  /\ Cardinality(mine) = IF fx.th[i].pc = "done" THEN 1 ELSE 0
              /\ \A k \in mine :
                    /\ fx.th[i].fetches = 1
                    /\ fx.lines[k].ok = fx.th[i].result.ok
    /\ Returned(fx) => Len(fx.lines) = Len(fx.repos)
    /\ LineWorkers(fx) =
          SubSeq(fx.acq, 1, Len(fx.acq) - (IF fx.lock = 0 THEN 0 ELSE 1))

\* the pre-fetch of `ws new` on three mirrors is over: the lines came out
\* in the order the lock was acquired, which is not the request order, and
\* a FAIL line stands between two ok lines
C21_Witness ==
    /\ fx.pc = "prefetched"
    /\ Len(fx.repos) = 3
    /\ LineWorkers(fx) = <<2, 3, 1>>
    /\ fx.acq = <<2, 3, 1>>
    /\ fx.lines[1].ok /\ ~fx.lines[2].ok /\ fx.lines[3].ok

\* C22: fetch coordinator termination.  When every launched backend fetch
\* returns, the coordinator eventually returns; there is no cancellation or
\* timeout, so when one backend fetch never returns the coordinator never
\* returns, while every worker whose own fetch returns still finishes and
\* emits its progress line.
C22_Termination ==
    /\ [](fx.hangs = {} => <>Returned(fx))
    /\ [](fx.hangs # {} => ~Returned(fx))
    /\ \A i \in 1..MaxThreads :
          []((i \in DOMAIN fx.repos /\ i \notin fx.hangs)
               => <>(/\ i \in DOMAIN fx.repos
                     /\ fx.th[i].pc = "done"
                     /\ \E k \in DOMAIN fx.lines : fx.lines[k].w = i))

\* a run on three mirrors in which the second backend fetch never returns:
\* the first handle is joined, the third worker has emitted its line, and
\* the coordinator waits for the second
C22_Witness ==
    /\ fx.pc = "joining"
    /\ Len(fx.repos) = 3
    /\ fx.hangs = {2}
    /\ fx.th[2].pc = "fetch"
    /\ LineWorkers(fx) = <<3, 1>>
    /\ Len(fx.results) = 1

\* both calls have returned
BothDone == cc.pc = "running" /\ \A p \in Procs : cc.call[p].pc = "done"

\* an identity whose worktree a successful call attached and which the
\* metadata file does not record
LostUpdate ==
    \E p \in Procs : \E id \in cc.call[p].done :
        /\ cc.call[p].res = "ok"
        /\ Attached(State, cc.n, id)
        /\ id \notin DOMAIN ws[cc.n].repos

\* C23: unguarded metadata race.  add_repos reads the metadata file, adds
\* to what it read and writes the whole file back, with no lock: when two
\* calls on the same workspace have both returned, the worktrees each of
\* them attached are on disk, and the metadata file holds exactly what the
\* call that wrote last had read plus its own new identities - so the
\* identities of the other call are recorded only if the last writer read
\* the file after the other call had written it.
C23_LostUpdate ==
    /\ \A p \in Procs :
          LET c == cc.call[p]
          IN  /\ \A id \in c.done : Attached(State, cc.n, id)
              /\ c.pc = "done" /\ c.res = "ok" =>
                    /\ DOMAIN c.meta.repos = DOMAIN c.loaded \cup c.done
                    /\ DOMAIN c.repo_refs \subseteq DOMAIN c.meta.repos
    /\ (cc.pc = "running" /\ cc.saved # <<>>) =>
          ws[cc.n].repos = cc.call[cc.saved[Len(cc.saved)]].meta.repos
    /\ BothDone =>
          \A p, q \in Procs :
            (/\ p # q /\ cc.saved = <<p, q>>
             /\ cc.call[p].done \cap DOMAIN cc.call[q].loaded = {}
             /\ cc.call[p].done \ cc.call[q].done # {})
            => LostUpdate

\* the two calls added different identities and both succeeded; both
\* worktrees are on disk and the metadata file records only one of the two
C23_Witness ==
    /\ BothDone
    /\ cc.call[1].res = "ok" /\ cc.call[2].res = "ok"
    /\ cc.call[1].done = {IdY} /\ cc.call[2].done = {IdZ}
    /\ Attached(State, cc.n, IdY) /\ Attached(State, cc.n, IdZ)
    /\ DOMAIN ws[cc.n].repos = {IdX, IdZ}

\* the worktree directory of a repo of the workspace reports uncommitted
\* files or commits ahead
Pending(n, id) ==
    /\ Short(id) \in DOMAIN ws[n].wts
    /\ \/ ws[n].wts[Short(id)].changed
       \/ ws[n].wts[Short(id)].ahead

\* C24: dirty detection.  has_pending_changes returns exactly the short
\* names of the workspace's repos, Active and Context alike, whose worktree
\* has uncommitted files or commits ahead, each at most once, and the empty
\* list for a workspace none of whose worktrees has either.
C24_DirtyDetection ==
    \A n \in ValidNames :
        load_ok(State, n) =>
          LET r == has_pending_changes(State, n)
              repos == {id \in DOMAIN ws[n].repos : parse_ok(id)}
          IN  /\ r.ok
              /\ {r.dirty[i] : i \in DOMAIN r.dirty}
                    = {Short(id) : id \in {i \in repos : Pending(n, i)}}
              /\ \A i, j \in DOMAIN r.dirty : i # j => r.dirty[i] # r.dirty[j]
              /\ (\A id \in repos : ~Pending(n, id)) => r.dirty = <<>>

\* a workspace of an Active repo with a commit ahead and nothing
\* uncommitted, and a Context repo with an uncommitted file: both short
\* names are reported
C24_Witness ==
    \E n \in ValidNames : \E a, c \in DOMAIN ws[n].repos :
        /\ load_ok(State, n)
        /\ ActiveEntry(ws[n].repos[a]) /\ ContextEntry(ws[n].repos[c])
        /\ ws[n].wts[Short(a)].ahead /\ ~ws[n].wts[Short(a)].changed
        /\ ws[n].wts[Short(c)].changed
        /\ has_pending_changes(State, n).dirty = <<Short(a), Short(c)>>

\* the call made a backend call of this kind on this identity
Called(log, kind, id) == \E i \in Calls(log, {kind}) : log[i].id = id

\* what C25 says of a remove that was not refused at the gate, but for
\* the branch deletions: worktree removal is attempted for every Active and
\* Context repo, the workspace directory removal is attempted, and the call
\* succeeds exactly when that removal succeeds
CleanupGoesOn(r, name, F) ==
    /\ \A id \in ActiveOf(name) \cup ContextOf(name) :
          Called(r.log, "worktree_remove", id)
    /\ Calls(r.log, {"remove_dir_all"}) # {}
    /\ r.res = IF RmDir \in F THEN "IoError" ELSE "ok"
    /\ (r.res = "ok" => ~r.st.ws[name].exists)

\* C25 as stated: best-effort cleanup past the gate.  Once remove has
\* passed the merge gate (or force is set), a failure of worktree_remove or
\* branch_delete does not abort the call: worktree removal is attempted for
\* every Active and Context repo, branch deletion for every Active repo,
\* the workspace directory is removed, and remove succeeds whenever that
\* final removal succeeds.
C25_BestEffortCleanup ==
    \A name \in ValidNames, force \in BOOLEAN :
      \A F \in RemoveFaults(name, force) :
        load_ok(State, name) =>
          LET r == remove(State, name, force, F)
          IN  r.res # "UnmergedBranch" =>
                /\ CleanupGoesOn(r, name, F)
                /\ \A id \in ActiveOf(name) :
                      Called(r.log, "branch_delete", id)

\* C25 as amended: the same, with branch deletion attempted for every
\* Active repo whose shared branch still exists in its mirror, and for no
\* other repo.
C25_BestEffortWhereBranchExists ==
    \A name \in ValidNames, force \in BOOLEAN :
      \A F \in RemoveFaults(name, force) :
        load_ok(State, name) =>
          LET r == remove(State, name, force, F)
          IN  r.res # "UnmergedBranch" =>
                /\ CleanupGoesOn(r, name, F)
                /\ \A id \in MirrorIds :
                      Called(r.log, "branch_delete", id)
                        <=> /\ id \in ActiveOf(name)
                            /\ branch_exists(mirrors[id], ws[name].branch)

\* a workspace of an Active and a Context repo: the remove in which the
\* Active repo's worktree removal and branch deletion both fail still
\* detaches the Context repo's worktree, removes the directory and succeeds
C25_Witness ==
    \E name \in ValidNames, a, c \in MirrorIds :
        /\ load_ok(State, name)
        /\ a \in ActiveOf(name) /\ c \in ContextOf(name)
        /\ branch_exists(mirrors[a], ws[name].branch)
        /\ LET F == {<<"worktree_remove", a>>, <<"branch_delete", a>>}
               r == remove(State, name, FALSE, F)
           IN  /\ r.res = "ok"
               /\ ~r.st.ws[name].exists
               /\ <<name, Short(c)>> \in mirrors[c].wts
               /\ <<name, Short(c)>> \notin r.st.mirrors[c].wts
               /\ <<name, Short(a)>> \in r.st.mirrors[a].wts
               /\ branch_exists(r.st.mirrors[a], ws[name].branch)

\* q is start or a directory above it
IsPrefix(q, start) == Len(q) <= Len(start) /\ SubSeq(start, 1, Len(q)) = q

\* the directories from start up to the root that hold the metadata file
Holders(fs, start) == {q \in fs : IsPrefix(q, start)}

\* C26: detect(start) returns the nearest directory on the path from start
\* up to the file-system root, start included, that holds the metadata
\* file; it fails with the not-in-a-workspace error when there is none; and
\* the upward walk always terminates.
C26_Detect ==
    /\ [](dt.pc = "ok" =>
            /\ dt.dir \in Holders(dt.fs, dt.start_dir)
            /\ \A q \in Holders(dt.fs, dt.start_dir) : Len(q) <= Len(dt.dir))
    /\ [](dt.pc = "NotInWorkspace" => Holders(dt.fs, dt.start_dir) = {})
    /\ [](dt.turns <= Len(dt.start_dir) + 1)
    /\ <>(dt.pc \in {"ok", "NotInWorkspace"})

\* detect has returned the directory above its start, although the root
\* of the file system holds a metadata file too
C26_Witness ==
    /\ dt.pc = "ok"
    /\ dt.start_dir = <<"a", "b">>
    /\ dt.dir = <<"a">>
    /\ dt.fs = {<<>>, <<"a">>}

\* the names a listing holds
Listed(l) == {l[i] : i \in DOMAIN l}

\* the workspaces root is there as soon as a directory is in it
RootStates(st) ==
    IF \E n \in DOMAIN st.ws : st.ws[n].exists THEN {TRUE} ELSE BOOLEAN

\* every listing list_all can return in a state
Listings(st) ==
    {list_all(st, root, e) : root \in RootStates(st), e \in ReadDirs(st)}

\* C27: list_all tracks the lifecycle.  After any sequence of create and
\* remove calls list_all returns, sorted and without duplicates, exactly the
\* names of the workspaces whose directory holds a metadata file, and the
\* empty list when the workspaces root does not exist: a name is listed
\* after its create succeeds, a failed create changes nothing of the
\* listing, a name is no longer listed after a successful remove and is
\* still listed after a remove refused by the merge gate.
C27_ListTracksLifecycle ==
    /\ \A l \in Listings(State) :
          /\ Listed(l) = {n \in ListNames : ws[n].exists /\ ws[n].meta}
          /\ \A i, j \in DOMAIN l : i < j => l[i] # l[j] /\ str_le(l[i], l[j])
    /\ \A e \in ReadDirs(State) : list_all(State, FALSE, e) = <<>>
    /\ \A name \in ListInputs, repo_refs \in ListRefMaps :
          \A F \in FaultSets(AttachCalls(repo_refs)) :
            LET r == create(State, name, repo_refs, F)
            IN  \A l \in Listings(State), l2 \in Listings(r.st) :
                  IF r.res = "ok"
                  THEN Listed(l2) = Listed(l) \cup {name}
                  ELSE l2 = l
    /\ \A name \in ListNames, force \in BOOLEAN :
          \A F \in RemoveFaults(name, force) :
            LET r == remove(State, name, force, F)
            IN  \A l \in Listings(State), l2 \in Listings(r.st) :
                  /\ r.res = "ok" => Listed(l2) = Listed(l) \ {name}
                  /\ r.res = "UnmergedBranch" => name \in Listed(l2) /\ l2 = l

\* two workspaces, created in the order b, a, are listed as a, b; a create
\* whose attach fails and whose cleanup fails leaves a directory that is
\* not listed
C27_Witness ==
    /\ last.op = "create" /\ last.name = WsA /\ last.res = "ok"
    /\ Listings(State) = {<<WsA, WsB>>}
    /\ LET gone == remove(State, WsB, TRUE, {})
           r == create(gone.st, WsB, [id \in {IdX} |-> NoRef],
                       {<<"worktree_add", IdX>>, RmDir})
       IN  /\ gone.res = "ok"
           /\ r.res = "AttachFailed"
           /\ r.st.ws[WsB].exists
           /\ Listings(r.st) = {<<WsA>>}

\* C28: a successful create(name, repo_refs) records in the metadata the
\* given name, a branch derived from the name alone - the name itself, which
\* is also what `ws new` announces when no prefix is configured - and
\* exactly the requested identities, Active for an empty ref and
\* Context(ref) for a non-empty one; and every Active repo of the workspace
\* is attached on that same branch.
C28_CreateRecords ==
    \A name \in Names, repo_refs \in RepoRefMaps :
      \A F \in CreateFaults(name, repo_refs) :
        LET r == create(State, name, repo_refs, F)
        IN  r.res = "ok" =>
              LET meta == r.st.ws[name]
              IN  /\ meta.meta
                  /\ meta.name = name
                  /\ meta.branch = name
                  /\ \A prefix \in {NoPrefix, SomePrefix(<<>>)} :
                        meta.branch = new_branch(prefix, name)
                  /\ DOMAIN meta.repos = DOMAIN repo_refs
                  /\ \A id \in DOMAIN repo_refs :
                        IF repo_refs[id] = NoRef
                        THEN /\ ActiveEntry(meta.repos[id])
                             /\ meta.wts[Short(id)].co = meta.branch
                             /\ meta.branch \in r.st.mirrors[id].branches
                        ELSE /\ ContextEntry(meta.repos[id])
                             /\ meta.repos[id].ref = repo_refs[id]

\* a create of an Active and a Context repo has succeeded: the Active
\* repo's worktree is on the branch named as the workspace, the Context
\* repo's on its ref
C28_Witness ==
    /\ last.op = "create" /\ last.res = "ok"
    /\ ws[last.name].name = last.name /\ ws[last.name].branch = last.name
    /\ \E a, c \in DOMAIN ws[last.name].repos :
         /\ ActiveEntry(ws[last.name].repos[a])
         /\ ws[last.name].wts[Short(a)].co = last.name
         /\ ws[last.name].repos[c] = RefSome(Main)
         /\ ws[last.name].wts[Short(c)].co = Main

\* the phase of remove a backend call belongs to; the existence and
\* default-branch queries, made in two phases, are given none
Phase(call) ==
    IF call = "fetch" THEN 1
    ELSE IF call = "branch_is_merged" THEN 2
    ELSE IF call = "worktree_remove" THEN 3
    ELSE IF call = "branch_delete" THEN 4
    ELSE IF call = "remove_dir_all" THEN 5
    ELSE 0

\* C29: order of remove's phases.  Within one remove call every fetch of
\* an Active mirror comes before any merge check, every merge check before
\* any worktree_remove, all worktree removals (those of the Active repos
\* first, then those of the Context repos) before any branch_delete, and
\* the removal of the workspace directory comes last.
C29_PhaseOrder ==
    \A name \in ValidNames, force \in BOOLEAN :
      \A F \in RemoveFaults(name, force) :
        LET r == remove(State, name, force, F)
            n == Len(r.log)
            phased == SelectSeq(r.log, LAMBDA e : Phase(e.call) # 0)
            removals == SelectSeq(r.log, LAMBDA e : e.call = "worktree_remove")
        IN  /\ \A k \in 1..(Len(phased) - 1) :
                  Phase(phased[k].call) <= Phase(phased[k + 1].call)
            /\ \A k \in 1..(Len(removals) - 1) :
                  removals[k].id \in ContextOf(name)
                    => removals[k + 1].id \in ContextOf(name)
            /\ \A k \in DOMAIN phased :
                  phased[k].call = "fetch" => phased[k].id \in ActiveOf(name)
            /\ \A i \in 1..n : r.log[i].call = "remove_dir_all" => i = n
            /\ (\E k \in DOMAIN phased : Phase(phased[k].call) \in {3, 4})
                  => r.log[n].call = "remove_dir_all"

\* a workspace of a Context repo and, later in key order, an Active repo:
\* remove runs its five phases, and removes the Active repo's worktree
\* before the Context repo's
C29_Witness ==
    \E name \in ValidNames :
        /\ load_ok(State, name)
        /\ ActiveOf(name) = {IdY} /\ ContextOf(name) = {IdX}
        /\ LET r == remove(State, name, FALSE, {})
               phased == SelectSeq(r.log, LAMBDA e : Phase(e.call) # 0)
           IN  /\ r.res = "ok"
               /\ [i \in DOMAIN phased |-> <<phased[i].call, phased[i].id>>]
                    = << <<"fetch", IdY>>, <<"branch_is_merged", IdY>>,
                         <<"worktree_remove", IdY>>, <<"worktree_remove", IdX>>,
                         <<"branch_delete", IdY>>, <<"remove_dir_all", <<>>>> >>

\* C30: conditional branch deletion.  remove calls branch_delete only on
\* mirrors of Active repos, only with the workspace's shared branch name,
\* and only when branch_exists returned true for that mirror and branch
\* immediately before; an Active repo whose shared branch is gone from its
\* mirror is not merge-checked, is not among the repos a refusal names, and
\* gets no branch_delete.
C30_ConditionalDelete ==
    \A name \in ValidNames, force \in BOOLEAN :
      \A F \in RemoveFaults(name, force) :
        LET r == remove(State, name, force, F)
            branch == ws[name].branch
        IN  /\ \A i \in Calls(r.log, {"branch_delete"}) :
                  /\ r.log[i].id \in ActiveOf(name)
                  /\ r.log[i].arg = branch
                  /\ i > 1
                  /\ r.log[i - 1] = Ev("branch_exists", r.log[i].id, branch, TRUE)
            /\ \A id \in ActiveOf(name) :
                  ~branch_exists(mirrors[id], branch) =>
                    /\ ~Called(r.log, "branch_is_merged", id)
                    /\ ~Called(r.log, "branch_delete", id)
                    /\ \A k \in DOMAIN r.who : r.who[k] # id
            /\ (load_ok(State, name)
                 /\ \A id \in ActiveOf(name) : ~branch_exists(mirrors[id], branch))
                  => r.res # "UnmergedBranch"

\* a workspace of two Active repos, one whose shared branch is gone from
\* its mirror and one whose branch is there: remove asks for both and
\* deletes the one that exists
C30_Witness ==
    \E name \in ValidNames, a, b \in MirrorIds :
        /\ load_ok(State, name)
        /\ {a, b} \subseteq ActiveOf(name)
        /\ ~branch_exists(mirrors[a], ws[name].branch)
        /\ branch_exists(mirrors[b], ws[name].branch)
        /\ LET r == remove(State, name, FALSE, {})
           IN  /\ r.res = "ok"
               /\ Called(r.log, "branch_exists", a)
               /\ ~Called(r.log, "branch_delete", a)
               /\ Called(r.log, "branch_delete", b)
               /\ ~branch_exists(r.st.mirrors[b], ws[name].branch)

\* ------------------------------------------------------------------ C31
\* the short names of the repos of a workspace's metadata whose worktree
\* holds uncommitted changes or commits ahead
DirtyShorts(name) ==
    {Short(id) : id \in {i \in DOMAIN ws[name].repos :
                            /\ parse_ok(i)
                            /\ Short(i) \in DOMAIN ws[name].wts
                            /\ \/ ws[name].wts[Short(i)].changed
                               \/ ws[name].wts[Short(i)].ahead}}

\* the order of str on the short names
ShortLe(a, b) == a = b \/ (a = "x" /\ b \in {"y", "z"}) \/ (a = "y" /\ b = "z")

\* C31: the pending-changes gate of `ws remove` runs before
\* workspace::remove.  Without --force, on a workspace where some repo has
\* uncommitted changes or commits ahead, the command fails with the
\* pending-changes error, which lists exactly those repos in sorted order,
\* and no backend call is made (no fetch, merge check, worktree removal,
\* branch deletion or directory removal): workspace and mirrors are as
\* they were.
C31_PendingGateFirst ==
    \A name \in ValidNames, delete_branches \in BOOLEAN :
      \A F \in RemoveFaults(name, delete_branches) :
        (load_ok(State, name) /\ DirtyShorts(name) # {}) =>
          LET r == cli_remove_run(State, name, FALSE, delete_branches, F)
          IN  /\ r.res = "PendingChanges"
              /\ {r.who[i] : i \in DOMAIN r.who} = DirtyShorts(name)
              /\ Len(r.who) = Cardinality(DirtyShorts(name))
              /\ \A i \in 1..Len(r.who) - 1 : ShortLe(r.who[i], r.who[i + 1])
              /\ r.log = <<>>
              /\ r.st = State

\* `ws remove` without --force was refused on a workspace with a dirty
\* worktree, which is still there
C31_Witness ==
    /\ last.op = "ws remove" /\ ~last.force
    /\ last.res = "PendingChanges"
    /\ load_ok(State, last.name)
    /\ DirtyShorts(last.name) # {}

\* ------------------------------------------------------------------ C32
\* the repos of a workspace's metadata that remove treats as Active
ActiveRepos(name) ==
    {id \in DOMAIN ws[name].repos :
        /\ parse_ok(id)
        /\ ~ws[name].repos[id].some \/ ws[name].repos[id].ref = NoRef}

Range(seq) == {seq[i] : i \in DOMAIN seq}

\* the pre-check fetch of id fails in this call
FetchFailed(id, F) == ~mirrors[id].exists \/ Fails(F, "fetch", id)

\* what the unmerged-branch error of r says, against the set of repos it
\* has to name
CaveatFor(r, named, F) ==
    /\ Range(r.who) = named
    /\ Len(r.who) = Cardinality(named)
    /\ Range(r.marked) = {id \in named : FetchFailed(id, F)}
    /\ r.note <=> \E id \in named : FetchFailed(id, F)

\* C32: unreliable-verdict caveat.  When remove(force=false) is refused at
\* the merge gate, the error names exactly the Active repos whose existing
\* branch was not reported merged by the merge check of the call, marks
\* exactly those of them whose pre-check fetch failed, and carries the
\* note iff at least one of the named repos had a failed fetch.
C32_UnreliableVerdict ==
    \A name \in ValidNames :
      \A F \in RemoveFaults(name, FALSE) :
        LET r == remove(State, name, FALSE, F)
        IN  r.res = "UnmergedBranch" =>
              CaveatFor(r, {id \in ActiveRepos(name) :
                              /\ branch_exists(mirrors[id], ws[name].branch)
                              /\ ~MergedVerdict(r.log, id)}, F)

\* the same for the calls in which every default branch resolves
C32_CaveatWhenDefaultResolves ==
    \A name \in ValidNames :
      \A F \in RemoveFaults(name, FALSE) :
        LET r == remove(State, name, FALSE, F)
        IN  (/\ r.res = "UnmergedBranch"
             /\ \A id \in ActiveRepos(name) : ~Fails(F, "default_branch", id))
            => CaveatFor(r, {id \in ActiveRepos(name) :
                               /\ branch_exists(mirrors[id], ws[name].branch)
                               /\ ~MergedVerdict(r.log, id)}, F)

\* a removal was refused for one repo while another one, whose fetch
\* failed, passes the gate: the error carries no note
C32_Witness ==
    /\ last.op = "remove" /\ ~last.force /\ last.res = "UnmergedBranch"
    /\ \E id, other \in ActiveRepos(last.name) :
         LET r == remove(State, last.name, FALSE, {<<"fetch", other>>})
         IN  /\ r.res = "UnmergedBranch"
             /\ r.who = <<id>> /\ r.marked = <<>> /\ ~r.note
             /\ MergedVerdict(r.log, other)

\* ------------------------------------------------------------------ C38
\* the call was refused at the merge gate, made no call of the destructive
\* phase, and left the workspace and the branches and worktrees of every
\* mirror as they were
Refused(r) ==
    /\ r.res = "UnmergedBranch"
    /\ Calls(r.log, Destructive) = {}
    /\ r.st.ws = ws
    /\ \A id \in DOMAIN mirrors :
         /\ r.st.mirrors[id].branches = mirrors[id].branches
         /\ r.st.mirrors[id].wts = mirrors[id].wts

\* C38: a backend error from the merge check is treated as not merged.  In
\* remove(force=false), if branch_is_merged fails for an Active repo whose
\* branch exists and whose default branch was resolved, that repo is
\* listed as unmerged and the removal is refused with nothing deleted.
C38_MergeCheckErrorIsUnmerged ==
    \A name \in ValidNames :
      \A F \in RemoveFaults(name, FALSE) :
        load_ok(State, name) =>
          \A id \in ActiveRepos(name) :
            (/\ branch_exists(mirrors[id], ws[name].branch)
             /\ Fails(F, "branch_is_merged", id)
             /\ ~Fails(F, "default_branch", id))
            => LET r == remove(State, name, FALSE, F)
               IN  Refused(r) /\ id \in Range(r.who)

\* a removal was refused although the branch of every Active repo is
\* merged in its mirror: a merge check of the call failed
C38_Witness ==
    /\ last.op = "remove" /\ ~last.force /\ last.res = "UnmergedBranch"
    /\ load_ok(State, last.name)
    /\ \A id \in ActiveRepos(last.name) :
         ws[last.name].branch \notin mirrors[id].unmerged
    /\ \E id \in ActiveRepos(last.name) :
         /\ branch_exists(mirrors[id], ws[last.name].branch)
         /\ Refused(remove(State, last.name, FALSE,
                            {<<"branch_is_merged", id>>}))
         /\ remove(State, last.name, FALSE, {}).res = "ok"

\* ------------------------------------------------------------------ C35
\* the place of an identity in key order
KeyIndex(id) == CHOOSE i \in DOMAIN SortedIds : SortedIds[i] = id

\* the calls of a log made for the attach of an identity
AttachPart(log) ==
    SelectSeq(log, LAMBDA e : e.call \in AttachKinds \cup {"default_branch"})

\* the worktree adds of a log made for id, and those that succeeded
Adds(log, id) == {i \in Calls(log, AttachKinds) : log[i].id = id}
OkAdds(log, id) == {i \in Adds(log, id) : log[i].ok}

\* C35: create attaches the requested identities one at a time in
\* identity-key order and stops at the first failure: every identity before
\* the failing one is attached once, no call is made for an identity after
\* it, the error names the failing identity, and the rollback (the removal
\* of the workspace directory) runs exactly once, as the last step of the
\* call; a create that succeeds attaches every identity once and rolls
\* nothing back.
C35_StrictAttachOrder ==
    \A name \in ValidNames, repo_refs \in LayoutRefMaps :
      \A F \in CreateFaults(name, repo_refs) :
        LET r == create(State, name, repo_refs, F)
            part == AttachPart(r.log)
            rollbacks == Calls(r.log, {"remove_dir_all"})
        IN  r.res \in {"ok", "AttachFailed"} =>
              /\ \A i \in 1..Len(part) - 1 :
                    KeyIndex(part[i].id) <= KeyIndex(part[i + 1].id)
              /\ \A id \in DOMAIN repo_refs :
                    Cardinality(Adds(r.log, id)) <= 1
              /\ r.res = "ok" =>
                    /\ \A id \in DOMAIN repo_refs :
                          Cardinality(OkAdds(r.log, id)) = 1
                    /\ rollbacks = {}
              /\ r.res = "AttachFailed" =>
                    /\ r.who \in DOMAIN repo_refs
                    /\ OkAdds(r.log, r.who) = {}
                    /\ \A id \in DOMAIN repo_refs :
                          /\ KeyIndex(id) < KeyIndex(r.who)
                                => Cardinality(OkAdds(r.log, id)) = 1
                          /\ KeyIndex(id) > KeyIndex(r.who)
                                => \A i \in DOMAIN part : part[i].id # id
                    /\ rollbacks = {Len(r.log)}

\* a create has failed after an attach; a create of three repos whose
\* second attach fails attaches the first, names the second, makes no call
\* for the third and ends with the rollback
C35_Witness ==
    /\ last.op = "create" /\ last.res = "AttachFailed"
    /\ branch_exists(mirrors[IdX], WsA)
    /\ LET r == create(State, WsA, [id \in LayoutIds |-> NoRef],
                       {<<"worktree_add", IdY>>})
       IN  /\ r.res = "AttachFailed" /\ r.who = IdY
           /\ [i \in DOMAIN r.log |-> <<r.log[i].call, r.log[i].id, r.log[i].ok>>]
                = << <<"create_dir_all", <<>>, TRUE>>,
                     <<"worktree_add_existing", IdX, TRUE>>,
                     <<"default_branch", IdY, TRUE>>,
                     <<"worktree_add", IdY, FALSE>>,
                     <<"remove_dir_all", <<>>, TRUE>> >>

\* ------------------------------------------------------------------ C36
\* the metadata file of a workspace directory
MetaFile(d) == [meta |-> d.meta, name |-> d.name, branch |-> d.branch,
                repos |-> d.repos]

\* the state a remove of workspace n returns in holds the worktree
\* registration of id in its mirror and, where id was attached as Active,
\* the shared branch
StillInMirror(st, n, id, branch, active) ==
    /\ <<n, Short(id)>> \in st.mirrors[id].wts
    /\ active => branch_exists(st.mirrors[id], branch)

\* C36: when add_repos fails at the attach of some identity, the metadata
\* file is exactly as before the call, the worktrees attached earlier in
\* the call are on disk and registered in their mirrors without being
\* recorded, and a following remove of the workspace, forced or not and
\* whatever fails in it, neither detaches them from their mirrors nor
\* deletes their shared branch.
C36_FailedAddLeavesUnrecorded ==
    \A n \in ValidNames, repo_refs \in LayoutRefMaps :
      \A F \in AddFaults(n, repo_refs) :
        LET r == add_repos(State, n, repo_refs, F)
        IN  r.res = "AttachFailed" =>
              /\ MetaFile(r.st.ws[n]) = MetaFile(ws[n])
              /\ \A id \in r.done :
                    /\ Attached(r.st, n, id)
                    /\ id \notin DOMAIN r.st.ws[n].repos
              /\ r.done # {} =>
                    \A force \in BOOLEAN :
                      \A F2 \in FaultSets(RemoveCalls(ws[n].repos, force)) :
                        LET later == remove(r.st, n, force, F2)
                        IN  \A id \in r.done :
                              StillInMirror(later.st, n, id, ws[n].branch,
                                            repo_refs[id] = NoRef)

\* an add_repos has failed after an attach: the worktree is there and not
\* recorded, and the removal that succeeds leaves its registration and its
\* branch in the mirror
C36_Witness ==
    /\ last.op = "add_repos" /\ last.res = "AttachFailed"
    /\ load_ok(State, last.name)
    /\ \E id \in LayoutIds :
         /\ Attached(State, last.name, id)
         /\ id \notin DOMAIN ws[last.name].repos
         /\ LET r == remove(State, last.name, TRUE, {})
            IN  /\ r.res = "ok"
                /\ ~r.st.ws[last.name].exists
                /\ <<last.name, Short(id)>> \in r.st.mirrors[id].wts
                /\ branch_exists(r.st.mirrors[id], ws[last.name].branch)

\* ------------------------------------------------------------------ C37
\* C37: the rollback of a failed create is limited to the workspace
\* directory.  For every Active repo attached before the failing one, the
\* shared branch and the worktree registration are still in its mirror
\* when create returns, and no mirror has lost a branch or a
\* registration; and a create of a name whose branch is already in the
\* mirror of a requested Active repo attaches that branch
\* (worktree_add_existing) without resolving the default branch or
\* creating a branch from it.
C37_RollbackLeavesBranches ==
    \A name \in ValidNames, repo_refs \in LayoutRefMaps :
      \A F \in CreateFaults(name, repo_refs) :
        LET r == create(State, name, repo_refs, F)
        IN  /\ r.res = "AttachFailed" =>
                /\ \A id \in DOMAIN repo_refs :
                      (repo_refs[id] = NoRef /\ OkAdds(r.log, id) # {}) =>
                        /\ branch_exists(r.st.mirrors[id], name)
                        /\ <<name, Short(id)>> \in r.st.mirrors[id].wts
                /\ \A id \in DOMAIN mirrors :
                      /\ mirrors[id].branches \subseteq r.st.mirrors[id].branches
                      /\ mirrors[id].wts \subseteq r.st.mirrors[id].wts
            /\ r.res \in {"ok", "AttachFailed"} =>
                \A id \in DOMAIN repo_refs :
                  (repo_refs[id] = NoRef /\ branch_exists(mirrors[id], name)) =>
                    /\ \A i \in Adds(r.log, id) :
                          /\ r.log[i].call = "worktree_add_existing"
                          /\ r.log[i].arg = name
                    /\ \A i \in Calls(r.log, {"default_branch"}) :
                          r.log[i].id # id

\* the first create has failed after the attach of an Active repo: the
\* workspace does not exist, the mirror holds a branch of its name, and a
\* create of the same name attaches that branch
C37_Witness ==
    /\ ops = 1 /\ last.op = "create" /\ last.res = "AttachFailed"
    /\ ~ws[last.name].exists
    /\ \E id \in LayoutIds :
         /\ branch_exists(mirrors[id], last.name)
         /\ <<last.name, Short(id)>> \in mirrors[id].wts
         /\ LET r == create(State, last.name, [i \in {id} |-> NoRef], {})
            IN  \E i \in Adds(r.log, id) :
                  /\ r.log[i].call = "worktree_add_existing"
                  /\ r.log[i].arg = last.name

\* ------------------------------------------------------------------ C39
\* create(name, ..) in state st is rejected as already existing, for every
\* request and every fault set
AlwaysRejected(st, name) ==
    \A repo_refs \in ListRefMaps :
      \A F \in FaultSets(AttachCalls(repo_refs)) :
        create(st, name, repo_refs, F).res = "AlreadyExists"

NeverRejected(st, name) ==
    \A repo_refs \in ListRefMaps :
      \A F \in FaultSets(AttachCalls(repo_refs)) :
        create(st, name, repo_refs, F).res # "AlreadyExists"

\* C39: name reuse after removal.  After remove(name, ..) has returned
\* success the workspace directory is absent and a following
\* create(name, ..) is not rejected as already existing; after a remove
\* refused at the merge gate a following create(name, ..) is rejected as
\* already existing.
C39_NameReuse ==
    \A name \in ListNames, force \in BOOLEAN :
      \A F \in RemoveFaults(name, force) :
        LET r == remove(State, name, force, F)
        IN  /\ r.res = "ok" =>
                  ~r.st.ws[name].exists /\ NeverRejected(r.st, name)
            /\ r.res = "UnmergedBranch" => AlwaysRejected(r.st, name)

\* a workspace was removed with success: its directory is absent and the
\* create of the same name succeeds
C39_Witness ==
    /\ last.op = "remove" /\ last.res = "ok"
    /\ ~ws[last.name].exists
    /\ create(State, last.name, [id \in {IdX} |-> NoRef], {}).res = "ok"

\* ------------------------------------------------------------------ C40
\* thread i holds the progress lock exactly while it prints its line, and
\* it prints only once its backend fetch has returned
LockOnlyToPrint(i) ==
    /\ fx.lock = i <=> fx.th[i].pc = "print"
    /\ fx.th[i].pc \in {"idle", "fetch"} => fx.th[i].fetches = 0
    /\ fx.th[i].pc \in {"lock", "print", "done"} => fx.th[i].fetches = 1

\* C40: the progress lock is taken only after a worker's backend fetch has
\* returned and is held only while that worker's line is printed: no
\* worker holds it during its fetch; and a fetch that hangs does not keep
\* the other workers from reporting: every worker whose fetch returns gets
\* to print its line.
C40_LockOutsideFetch ==
    /\ [](\A i \in DOMAIN fx.repos : LockOnlyToPrint(i))
    /\ \A i \in 1..MaxThreads :
          (i \in DOMAIN fx.repos /\ i \notin fx.hangs)
            ~> (/\ i \in DOMAIN fx.repos
                /\ fx.th[i].pc = "done"
                /\ \E k \in DOMAIN fx.lines : fx.lines[k].w = i)

\* two fetches are in flight at once, one of them hung for good, while a
\* third worker has reported
C40_Witness ==
    \E i, j, k \in DOMAIN fx.repos :
        /\ i # j
        /\ fx.th[i].pc = "fetch" /\ i \in fx.hangs
        /\ fx.th[j].pc = "fetch" /\ j \notin fx.hangs
        /\ fx.th[k].pc = "done"
        /\ fx.lock = 0
        /\ \E l \in DOMAIN fx.lines : fx.lines[l].w = k

\* ------------------------------------------------------------------ C34
\* the requested identities that have a mirror
RequestedMirrors(repo_refs) == {id \in DOMAIN repo_refs : parse_ok(id)}

\* workspace::create has started: the command is past it, or the
\* workspaces root or a mirror is no longer as it was
CreateStarted ==
    fx.pc = "done" \/ ws # FreshState.ws \/ mirrors # FreshState.mirrors

\* the state of a run of `ws new` respects the pre-fetch rules
PrefetchBeforeCreate ==
    /\ (~fx.no_fetch /\ fx.pc # "start") =>
          /\ Range(fx.repos) = RequestedMirrors(fx.repo_refs)
          /\ Len(fx.repos) = Cardinality(RequestedMirrors(fx.repo_refs))
          /\ DOMAIN fx.th = DOMAIN fx.repos
          /\ \A i \in DOMAIN fx.th : fx.th[i].fetches <= 1
    /\ fx.no_fetch => fx.th = <<>> /\ fx.lines = <<>>
    /\ (~fx.no_fetch /\ CreateStarted) =>
          /\ fx.pc = "done"
          /\ \A i \in DOMAIN fx.repos :
                fx.th[i].pc = "done" /\ fx.th[i].fetches = 1
    /\ fx.pc = "done" =>
          fx.res = create(FreshState, fx.name, fx.repo_refs, fx.faults).res

\* C34: pre-fetch warm-up of `ws new`.  Unless --no-fetch is given, one
\* fetch per requested mirror is run, and all of them have completed
\* before workspace::create starts; the result of the command is the
\* result of create whatever the pre-fetches returned, and when no fetch
\* hangs the command gets to the end of create even if every pre-fetch
\* fails; with --no-fetch no fetch is started.
C34_PrefetchWarmUp ==
    /\ []PrefetchBeforeCreate
    /\ (fx.no_fetch \/ fx.hangs = {}) ~> (fx.pc = "done")

\* two mirrors were pre-fetched at the same time, both fetches failed, and
\* the creation went through
C34_Witness ==
    /\ fx.pc = "done" /\ ~fx.no_fetch /\ fx.res = "ok"
    /\ Len(fx.repos) = 2
    /\ \A i \in DOMAIN fx.th : ~fx.th[i].result.ok
    /\ load_ok(State, fx.name)

\* ------------------------------------------------------------------ C33
\* the state in which the metadata of workspace n has no entry for id
Without(st, n, id) ==
    [st EXCEPT !.ws[n].repos = [k \in DOMAIN @ \ {id} |-> @[k]]]

\* between commands: on a workspace whose metadata holds the unparsable
\* key, has_pending_changes and remove do what they do without the entry,
\* and make no call for it
BulkSkips ==
    \A n \in ValidNames :
      (fx.pc = "none" /\ load_ok(State, n) /\ IdBad \in DOMAIN ws[n].repos) =>
        /\ LET p == has_pending_changes(State, n)
           IN  /\ p.ok
               /\ p.dirty = has_pending_changes(Without(State, n, IdBad), n).dirty
               /\ Range(p.dirty) \subseteq DirtyShorts(n)
        /\ \A force \in BOOLEAN :
             \A F \in RemoveFaults(n, force) :
               LET r == remove(State, n, force, F)
                   r0 == remove(Without(State, n, IdBad), n, force, F)
               IN  /\ r.res = r0.res /\ r.log = r0.log /\ r.who = r0.who
                   /\ r.res # "MetadataError"
                   /\ \A i \in DOMAIN r.log : r.log[i].id # IdBad
                   /\ IdBad \notin Range(r.who)
                   /\ (r.res # "UnmergedBranch" /\ RmDir \notin F) =>
                         r.res = "ok" /\ ~r.st.ws[n].exists

\* in a run of `ws fetch` inside the workspace: the threads are the keys of
\* the metadata that parse, one thread each, and the result list has one
\* entry per thread, in that order
FetchSkips ==
    fx.pc # "none" =>
      /\ \E n \in ValidNames : fx.identities = Keys(ws[n].repos)
      /\ Range(fx.repos) = {id \in Range(fx.identities) : parse_ok(id)}
      /\ Len(fx.repos) = Cardinality(Range(fx.repos))
      /\ DOMAIN fx.th = DOMAIN fx.repos
      /\ \A k \in DOMAIN fx.lines : fx.lines[k].w \in DOMAIN fx.repos
      /\ fx.pc = "done" =>
            [k \in DOMAIN fx.output |-> fx.output[k].identity] = fx.repos

\* C33: identity parse errors are skipped in bulk operations.  A key of
\* the metadata that cannot be parsed makes none of remove,
\* has_pending_changes and `ws fetch` fail: remove makes no fetch, merge
\* check, worktree removal or branch deletion for it and still removes the
\* workspace directory, has_pending_changes does not report it, and
\* `ws fetch` has no thread and no result entry for it and runs to its end.
C33_ParseErrorsSkipped ==
    /\ [](BulkSkips /\ FetchSkips)
    /\ (fx.pc # "none") ~> (fx.pc = "done")

\* `ws fetch` has ended on a workspace of two repos whose metadata holds
\* the unparsable key and one of whose worktrees is dirty: two results; a
\* forced remove detaches both worktrees and removes the directory
C33_Witness ==
    /\ fx.pc = "done"
    /\ fx.identities = <<IdBad, IdX, IdY>>
    /\ [k \in DOMAIN fx.output |-> fx.output[k].identity] = <<IdX, IdY>>
    /\ has_pending_changes(State, WsA).dirty # <<>>
    /\ LET r == remove(State, WsA, TRUE, {})
       IN  /\ r.res = "ok" /\ ~r.st.ws[WsA].exists
           /\ {r.log[i].id : i \in Calls(r.log, {"worktree_remove"})}
                = {IdX, IdY}

====
